---- MODULE Spec2Model ----
(***************************************************************************)
(* PIN messaging core: pairwise session crypto (X3DH-style agreement and   *)
(* the symmetric/DH ratchet of lib/crypto), the IndexedDB message store    *)
(* with its write-ahead buffer (lib/db), modelled as state machines.       *)
(*                                                                         *)
(* Cryptography is symbolic: a byte string is a sequence of strings, HKDF  *)
(* appends its info label to the input key material (so it is injective in *)
(* both arguments), ECDH is exponentiation in a small prime-order group,   *)
(* and AES-GCM is a box that opens only under the key and nonce it was     *)
(* sealed with.                                                            *)
(***************************************************************************)
EXTENDS Integers, Sequences, FiniteSets, TLC

VARIABLES
    x3dh,       \* key-agreement run: long-term keys, ephemeral, both secrets
    ratchet,    \* ratchetStates.current of each party (one channel)
    net,        \* payloads in flight, per receiving party, in order
    sentPlain,  \* plaintexts handed to encrypt, per receiving party, in order
    lastDec,    \* outcome of the most recent decrypt call
    db,         \* PinDatabase.db / WriteAheadLog.db is open (non-null)
    buffer,     \* WriteAheadLog.buffer
    messages,   \* the durable 'messages' object store, keyed by id
    channels,   \* the durable 'channels' object store, keyed by id
    txq,        \* IndexedDB transactions on 'messages', in creation order
    now,        \* Date.now()
    ret,        \* the most recent API event and what its caller observed
    addedLog,   \* history: every message ever passed to addMessage
    touched,    \* history: ids written more than once
    sweptAt,    \* history: clock of the last sweep not followed by a write, else 0
    sessions,   \* the server's active_sessions table, keyed by user id
    hbTx,       \* heartbeat() calls running on the server, keyed by user id
    conn,       \* useConnectionManager: status, refs, timers, subscriptions
    relay,      \* CrossTabService of each context and the BroadcastChannel
    mem,        \* usePinStore messages (the in-memory list of the open chat)
    jobs,       \* timers and remote calls the client has in flight
    remote,     \* the remote backend's messages and the local sync cursor
    hook        \* useSignalProtocol: ratchetStates.current by channel, last call

cryptoVars == <<x3dh, ratchet, net, sentPlain, lastDec>>
storeVars == <<db, buffer, messages, channels, txq, now, ret, addedLog, touched, sweptAt>>
historyVars == <<addedLog, touched, sweptAt>>
storeData == <<db, buffer, messages, channels, txq, now>>
leaseVars == <<sessions, hbTx>>
clientVars == <<mem, jobs, remote>>
appVars == <<sessions, hbTx, conn, relay, mem, jobs, remote, hook>>
vars == <<x3dh, ratchet, net, sentPlain, lastDec,
          db, buffer, messages, channels, txq, now, ret, addedLog, touched, sweptAt,
          sessions, hbTx, conn, relay, mem, jobs, remote, hook>>

(***************************************************************************)
(* Bounds                                                                  *)
(***************************************************************************)
MaxPriv == 3        \* private scalars drawn by generateKeyPair: 1..MaxPriv
MaxSend == 2        \* encrypt calls per direction

(***************************************************************************)
(* ECDH: exponentiation modulo GroupPrime with generator GroupGen          *)
(***************************************************************************)
GroupPrime == 23
GroupGen == 5

RECURSIVE ModExp(_, _)
ModExp(b, e) == IF e = 0 THEN 1 ELSE (b * ModExp(b, e - 1)) % GroupPrime

PrivKeys == 1..MaxPriv

\* generateKeyPair: the public half of private scalar k
PublicOf(k) == ModExp(GroupGen, k)

\* crypto.subtle.deriveBits({name:'ECDH', public}, private, 256) as a byte string
deriveBits(pub, priv) == <<ToString(ModExp(pub, priv))>>

\* exportKey on a public key: the transport encoding (base64 of spki)
exportKey(pub) == ToString(pub)

\* importPublicKey: decode the transport encoding back to the group element
importPublicKey(s) == CHOOSE n \in 1..(GroupPrime - 1) : ToString(n) = s

\* hkdfDerive(inputKeyMaterial, info): zero salt, label appended
hkdfDerive(ikm, info) == Append(ikm, info)

NoKey == << >>

(***************************************************************************)
(* X3DH                                                                    *)
(***************************************************************************)
\* x3dhSender: DH1 = IK_s x SPK_r, DH2 = EK_s x IK_r, DH3 = EK_s x SPK_r
x3dhSenderSecret(senderIdPriv, ephPriv, bundleIdentityKey, bundleSignedPreKey) ==
    LET recipientIdentity == importPublicKey(bundleIdentityKey)
        recipientSignedPreKey == importPublicKey(bundleSignedPreKey)
        dh1 == deriveBits(recipientSignedPreKey, senderIdPriv)
        dh2 == deriveBits(recipientIdentity, ephPriv)
        dh3 == deriveBits(recipientSignedPreKey, ephPriv)
    IN  hkdfDerive(dh1 \o dh2 \o dh3, "PIN-X3DH-SharedSecret")

\* a receiver that concatenates DH2 before DH1
x3dhReceiverSwapped(recvIdPriv, recvSpkPriv, senderIdentityPub, senderEphemeralPub) ==
    LET senderIdentity == importPublicKey(senderIdentityPub)
        senderEphemeral == importPublicKey(senderEphemeralPub)
        dh1 == deriveBits(senderIdentity, recvSpkPriv)
        dh2 == deriveBits(senderEphemeral, recvIdPriv)
        dh3 == deriveBits(senderEphemeral, recvSpkPriv)
    IN  hkdfDerive(dh2 \o dh1 \o dh3, "PIN-X3DH-SharedSecret")

\* x3dhReceiver: DH1 = SPK_r x IK_s, DH2 = IK_r x EK_s, DH3 = SPK_r x EK_s
x3dhReceiver(recvIdPriv, recvSpkPriv, senderIdentityPub, senderEphemeralPub) ==
    LET senderIdentity == importPublicKey(senderIdentityPub)
        senderEphemeral == importPublicKey(senderEphemeralPub)
        dh1 == deriveBits(senderIdentity, recvSpkPriv)
        dh2 == deriveBits(senderEphemeral, recvIdPriv)
        dh3 == deriveBits(senderEphemeral, recvSpkPriv)
    IN  hkdfDerive(dh1 \o dh2 \o dh3, "PIN-X3DH-SharedSecret")

X3dhIdle(ikA, ikB, spkB) ==
    [phase |-> "keys", ikA |-> ikA, ikB |-> ikB, spkB |-> spkB,
     ephemeralPublicKey |-> "", senderSecret |-> NoKey, receiverSecret |-> NoKey]

\* x3dhSender (crypto.ts): fresh ephemeral, secret from the recipient's bundle
X3dhSender ==
    /\ x3dh.phase = "keys"
    /\ \E ek \in PrivKeys :
         x3dh' = [x3dh EXCEPT
                    !.phase = "sent",
                    !.ephemeralPublicKey = exportKey(PublicOf(ek)),
                    !.senderSecret =
                        x3dhSenderSecret(x3dh.ikA, ek,
                                         exportKey(PublicOf(x3dh.ikB)),
                                         exportKey(PublicOf(x3dh.spkB)))]
    /\ UNCHANGED <<ratchet, net, sentPlain, lastDec>>
    /\ UNCHANGED storeVars
    /\ UNCHANGED appVars

\* x3dhReceiver (crypto.ts) on the sender's identity key and ephemeral key
X3dhReceiver ==
    /\ x3dh.phase = "sent"
    /\ x3dh' = [x3dh EXCEPT
                  !.phase = "agreed",
                  !.receiverSecret =
                      x3dhReceiver(x3dh.ikB, x3dh.spkB,
                                   exportKey(PublicOf(x3dh.ikA)),
                                   x3dh.ephemeralPublicKey)]
    /\ UNCHANGED <<ratchet, net, sentPlain, lastDec>>
    /\ UNCHANGED storeVars
    /\ UNCHANGED appVars

(***************************************************************************)
(* Double ratchet                                                          *)
(***************************************************************************)
MaxIv == 2          \* nonces drawn by crypto.getRandomValues: 1..MaxIv
MaxCalls == 3       \* ratchetEncrypt / ratchetDecrypt calls applied to one state

Party == {"A", "B"}
Peer(p) == IF p = "A" THEN "B" ELSE "A"
Plaintexts == {"hello", "bye"}
Ivs == 1..MaxIv

\* no key pair / no remote key (null in the source)
NoRatchetKey == 0

\* initRatchet(sharedSecret, isInitiator); k is the generated key pair
initRatchet(sharedSecret, isInitiator, k) ==
    [rootKey |-> sharedSecret,
     sendingChainKey |-> NoKey,
     receivingChainKey |-> NoKey,
     sendingRatchetKey |-> IF isInitiator THEN k ELSE NoRatchetKey,
     receivingRatchetKey |-> NoRatchetKey,
     sendCount |-> 0,
     receiveCount |-> 0]

\* ratchetStep(state, remotePublicKey); k is the new sending ratchet key pair
ratchetStep(state, remotePublicKey, k) ==
    [state EXCEPT
       !.receivingRatchetKey = remotePublicKey,
       !.receivingChainKey =
           IF state.sendingRatchetKey # NoRatchetKey
           THEN hkdfDerive(deriveBits(remotePublicKey, state.sendingRatchetKey),
                           "PIN-Ratchet-Receiving")
           ELSE state.receivingChainKey,
       !.sendingRatchetKey = k,
       !.sendingChainKey =
           hkdfDerive(deriveBits(remotePublicKey, k), "PIN-Ratchet-Sending")]

\* a KDF chain that hands out the chain key itself and never advances
deriveMessageKeyStuck(chainKey) ==
    [messageKey |-> hkdfDerive(chainKey, "PIN-MessageKey"),
     nextChainKey |-> chainKey]

\* deriveMessageKey(chainKey)
deriveMessageKey(chainKey) ==
    [messageKey |-> hkdfDerive(chainKey, "PIN-MessageKey"),
     nextChainKey |-> hkdfDerive(chainKey, "PIN-ChainKey")]

\* encryptMessage(plaintext, key) with nonce iv: the sealed box
encryptMessage(plaintext, key, iv) ==
    [ciphertext |-> [key |-> key, iv |-> iv, pt |-> plaintext], iv |-> iv]

\* decryptMessage(ciphertext, iv, key): the tag verifies only under the sealing key and nonce
decryptOk(ciphertext, iv, key) == ciphertext.key = key /\ ciphertext.iv = iv
decryptMessage(ciphertext, iv, key) == ciphertext.pt

\* an encrypt that numbers the payload with the counter before its increment
ratchetEncryptOldNumber(plaintext, state, iv) ==
    LET chainKey == IF state.sendingChainKey = NoKey
                    THEN hkdfDerive(state.rootKey, "PIN-Initial-Send")
                    ELSE state.sendingChainKey
        d == deriveMessageKey(chainKey)
        enc == encryptMessage(plaintext, d.messageKey, iv)
        newState == [state EXCEPT !.sendingChainKey = d.nextChainKey,
                                  !.sendCount = @ + 1]
    IN  [payload |-> [ciphertext |-> enc.ciphertext,
                      iv |-> enc.iv,
                      ratchetPub |-> IF newState.sendingRatchetKey # NoRatchetKey
                                     THEN exportKey(PublicOf(newState.sendingRatchetKey))
                                     ELSE "",
                      messageNumber |-> state.sendCount],
         newState |-> newState]

\* ratchetEncrypt(plaintext, state) with nonce iv
ratchetEncrypt(plaintext, state, iv) ==
    LET chainKey == IF state.sendingChainKey = NoKey
                    THEN hkdfDerive(state.rootKey, "PIN-Initial-Send")
                    ELSE state.sendingChainKey
        d == deriveMessageKey(chainKey)
        enc == encryptMessage(plaintext, d.messageKey, iv)
        newState == [state EXCEPT !.sendingChainKey = d.nextChainKey,
                                  !.sendCount = @ + 1]
    IN  [payload |-> [ciphertext |-> enc.ciphertext,
                      iv |-> enc.iv,
                      ratchetPub |-> IF newState.sendingRatchetKey # NoRatchetKey
                                     THEN exportKey(PublicOf(newState.sendingRatchetKey))
                                     ELSE "",
                      messageNumber |-> newState.sendCount],
         newState |-> newState]

\* ratchetDecrypt(payload, state); k is the key pair a ratchet step generates
ratchetDecrypt(payload, state, k) ==
    LET stepped == IF payload.ratchetPub # ""
                   THEN ratchetStep(state, importPublicKey(payload.ratchetPub), k)
                   ELSE state
        chainKey == IF stepped.receivingChainKey = NoKey
                    THEN hkdfDerive(stepped.rootKey, "PIN-Initial-Receive")
                    ELSE stepped.receivingChainKey
        d == deriveMessageKey(chainKey)
        newState == [stepped EXCEPT !.receivingChainKey = d.nextChainKey,
                                    !.receiveCount = @ + 1]
    IN  [ok |-> decryptOk(payload.ciphertext, payload.iv, d.messageKey),
         plaintext |-> decryptMessage(payload.ciphertext, payload.iv, d.messageKey),
         newState |-> newState]

NoDecrypt == [called |-> FALSE, ok |-> FALSE, by |-> "A", plaintext |-> "", sent |-> ""]

\* useSignalProtocol.encrypt: ratchetEncrypt, store the new state, hand the payload on
Encrypt(p) ==
    /\ x3dh.phase = "session"
    /\ Len(sentPlain[Peer(p)]) < MaxSend
    /\ ratchet[p].sendCount < MaxSend
    /\ \E pt \in Plaintexts, iv \in Ivs :
         LET r == ratchetEncrypt(pt, ratchet[p], iv)
         IN  /\ ratchet' = [ratchet EXCEPT ![p] = r.newState]
             /\ net' = [net EXCEPT ![Peer(p)] = Append(@, r.payload)]
             /\ sentPlain' = [sentPlain EXCEPT ![Peer(p)] = Append(@, pt)]
    /\ UNCHANGED <<x3dh, lastDec>>
    /\ UNCHANGED storeVars
    /\ UNCHANGED appVars

\* decrypt storing the advanced state before the tag is checked
DecryptEager(p) ==
    /\ x3dh.phase = "session"
    /\ net[p] # << >>
    /\ \E k \in PrivKeys :
         LET r == ratchetDecrypt(Head(net[p]), ratchet[p], k)
         IN  /\ ratchet' = [ratchet EXCEPT ![p] = r.newState]
             /\ lastDec' = [called |-> TRUE, ok |-> r.ok, by |-> p,
                            plaintext |-> IF r.ok THEN r.plaintext ELSE "",
                            sent |-> Head(sentPlain[p])]
    /\ net' = [net EXCEPT ![p] = Tail(@)]
    /\ sentPlain' = [sentPlain EXCEPT ![p] = Tail(@)]
    /\ UNCHANGED x3dh
    /\ UNCHANGED storeVars
    /\ UNCHANGED appVars

\* useSignalProtocol.decrypt on the next payload in order: the new state is
\* stored only when ratchetDecrypt returns; a throw yields null
Decrypt(p) ==
    /\ x3dh.phase = "session"
    /\ net[p] # << >>
    /\ \E k \in PrivKeys :
         LET r == ratchetDecrypt(Head(net[p]), ratchet[p], k)
         IN  /\ ratchet' = [ratchet EXCEPT ![p] = IF r.ok THEN r.newState ELSE @]
             /\ lastDec' = [called |-> TRUE, ok |-> r.ok, by |-> p,
                            plaintext |-> IF r.ok THEN r.plaintext ELSE "",
                            sent |-> Head(sentPlain[p])]
    /\ net' = [net EXCEPT ![p] = Tail(@)]
    /\ sentPlain' = [sentPlain EXCEPT ![p] = Tail(@)]
    /\ UNCHANGED x3dh
    /\ UNCHANGED storeVars
    /\ UNCHANGED appVars

\* private scalars of the ratchet key pairs in these calls
CallKeys == {1, 2}

\* the chain keys a payload for this state may have been sealed under: the two
\* initial chains of the root key, the receiving chain in use, and the chain
\* ratchetStep derives from the payload's ratchet key
SealingChains(state, ratchetPub) ==
    {hkdfDerive(state.rootKey, "PIN-Initial-Send"),
     hkdfDerive(state.rootKey, "PIN-Initial-Receive")}
    \cup (IF state.receivingChainKey # NoKey THEN {state.receivingChainKey} ELSE {})
    \cup (IF ratchetPub # "" /\ state.sendingRatchetKey # NoRatchetKey
          THEN {hkdfDerive(deriveBits(importPublicKey(ratchetPub),
                                      state.sendingRatchetKey),
                           "PIN-Ratchet-Receiving")}
          ELSE {})

\* EncryptedPayload arguments of ratchetDecrypt
PayloadInputs(state) ==
    {[ciphertext |-> encryptMessage("hello", deriveMessageKey(ck).messageKey, 1).ciphertext,
      iv |-> 1,
      ratchetPub |-> pub,
      messageNumber |-> 1] :
        <<pub, ck>> \in
            UNION {{<<pub, ck>> : ck \in SealingChains(state, pub)} :
                      pub \in {""} \cup {exportKey(PublicOf(k)) : k \in CallKeys}}}

\* calls that returned so far, over both states (each adds one to a counter)
callsMade ==
    ratchet["A"].sendCount + ratchet["A"].receiveCount
    + ratchet["B"].sendCount + ratchet["B"].receiveCount

\* ratchetEncrypt(plaintext, state) called on p's state; the caller keeps newState
CallEncrypt(p) ==
    /\ callsMade < MaxCalls
    /\ \E pt \in {"hello"}, iv \in Ivs :
         LET r == ratchetEncrypt(pt, ratchet[p], iv)
         IN  /\ ratchet' = [ratchet EXCEPT ![p] = r.newState]
             /\ net' = [q \in Party |-> IF q = p THEN <<r.payload>> ELSE << >>]
             /\ lastDec' = [called |-> FALSE, ok |-> TRUE, by |-> p,
                            plaintext |-> pt, sent |-> pt]
    /\ UNCHANGED <<x3dh, sentPlain>>
    /\ UNCHANGED storeVars
    /\ UNCHANGED appVars

\* ratchetDecrypt(payload, state) called on p's state: it returns newState, or
\* throws from decryptMessage and returns nothing
CallDecrypt(p) ==
    /\ callsMade < MaxCalls
    /\ \E payload \in PayloadInputs(ratchet[p]), k \in CallKeys :
         LET r == ratchetDecrypt(payload, ratchet[p], k)
         IN  /\ ratchet' = [ratchet EXCEPT ![p] = IF r.ok THEN r.newState ELSE @]
             /\ net' = [q \in Party |-> IF q = p THEN <<payload>> ELSE << >>]
             /\ lastDec' = [called |-> TRUE, ok |-> r.ok, by |-> p,
                            plaintext |-> IF r.ok THEN r.plaintext ELSE "",
                            sent |-> ""]
    /\ UNCHANGED <<x3dh, sentPlain>>
    /\ UNCHANGED storeVars
    /\ UNCHANGED appVars


(***************************************************************************)
(* Message store (lib/db): WriteAheadLog + PinDatabase over IndexedDB.     *)
(* Transactions on the 'messages' store run one at a time in the order     *)
(* they were created; a transaction commits or aborts as a whole.          *)
(***************************************************************************)
MaxBuf == 1         \* messages buffered at once where writes race with direct puts
MaxAdds == 2        \* distinct messages passed to addMessage, and buffered at once
MaxWalAdds == 21    \* addMessage calls in the threshold specification
MaxTx == 2          \* transactions queued at once
MaxSweepTx == 1     \* transactions queued at once while sweeps run
MaxTime == 3        \* the clock runs 0..MaxTime

WAL_THRESHOLD == 20
TEN_DAYS_MS == 864000000
NoSync == 0

Sentinel == "[CIFRADO_LOCAL]"
Channels == {"c1", "c2"}
\* calculateBucketId(timestamp)
calculateBucketId(timestamp) == timestamp \div TEN_DAYS_MS

\* a LocalMessage as its callers build it (text messages, no media)
LocalMessage(id, channelId, content, encryptedContent, createdAt, expiresAt, status) ==
    [id |-> id, channelId |-> channelId, bucketId |-> calculateBucketId(createdAt),
     content |-> content, encryptedContent |-> encryptedContent,
     expiresAt |-> expiresAt, createdAt |-> createdAt,
     status |-> status, syncedAt |-> NoSync]

\* an API call that is waiting for its transaction
Op(kind, channelId, arg, status, msg, snap) ==
    [kind |-> kind, channelId |-> channelId, arg |-> arg, status |-> status,
     msg |-> msg, snap |-> snap]
NoOp == Op("none", "", 0, "", << >>, {})

FlushTx(msgs, op) == [kind |-> "flush", msgs |-> msgs, op |-> op]
OpTx(op) == [kind |-> "op", msgs |-> << >>, op |-> op]

Ret(event, ok, op, result, count) ==
    [event |-> event, ok |-> ok, op |-> op, result |-> result, count |-> count]
NoRet == Ret("none", TRUE, NoOp, << >>, 0)

\* store.put(row): insert or replace by primary key
Put(store, row) ==
    [i \in (DOMAIN store) \cup {row.id} |-> IF i = row.id THEN row ELSE store[i]]

\* a flush that writes the records as they are
flushRowPlain(msg) == msg

\* WriteAheadLog.flush, per record: { ...msg, content: '[CIFRADO_LOCAL]' }
flushRow(msg) == [msg EXCEPT !.content = Sentinel]

RECURSIVE PutAll(_, _)
PutAll(store, msgs) ==
    IF msgs = << >> THEN store
    ELSE PutAll(Put(store, flushRow(Head(msgs))), Tail(msgs))

\* WriteAheadLog.flush up to the transaction it opens: take the buffer, empty it
flush(dbOpen, buf, q, awaiting) ==
    IF ~dbOpen \/ buf = << >>
    THEN [buffer |-> buf, txq |-> q, started |-> FALSE]
    ELSE [buffer |-> << >>, txq |-> Append(q, FlushTx(buf, awaiting)), started |-> TRUE]

\* an append that flushes one message late
appendLate(dbOpen, buf, q, message) ==
    LET b == Append(buf, message)
    IN  IF Len(b) >= WAL_THRESHOLD + 1 THEN flush(dbOpen, b, q, NoOp)
        ELSE [buffer |-> b, txq |-> q, started |-> FALSE]

\* WriteAheadLog.append(message)
append(dbOpen, buf, q, message) ==
    LET b == Append(buf, message)
    IN  IF Len(b) >= WAL_THRESHOLD THEN flush(dbOpen, b, q, NoOp)
        ELSE [buffer |-> b, txq |-> q, started |-> FALSE]

SeqRange(q) == {q[i] : i \in DOMAIN q}
IdsOf(set) == {m.id : m \in set}

\* messages not yet durable: buffered, or in a flush transaction not yet run
Pending == SeqRange(buffer) \cup
           UNION {SeqRange(txq[i].msgs) : i \in DOMAIN txq}

\* PinDatabase.init()
init ==
    /\ ~db
    /\ db' = TRUE
    /\ ret' = Ret("init", TRUE, NoOp, << >>, 0)
    /\ UNCHANGED <<buffer, messages, channels, txq, now>>
    /\ UNCHANGED cryptoVars
    /\ UNCHANGED appVars

\* PinDatabase.addMessage(message): wal.append, which may start a threshold flush
addMessage(message) ==
    LET r == append(db, buffer, txq, message)
    IN  /\ Len(txq) < MaxTx
        /\ buffer' = r.buffer
        /\ txq' = r.txq
        /\ ret' = Ret("addMessage", TRUE, NoOp, << >>, 0)
        /\ UNCHANGED <<db, messages, channels, now>>
        /\ UNCHANGED cryptoVars
        /\ UNCHANGED appVars

\* the setInterval callback of startAutoFlush (every 3 s)
AutoFlush ==
    /\ buffer # << >>
    /\ db
    /\ Len(txq) < MaxTx
    /\ LET r == flush(db, buffer, txq, NoOp)
       IN  buffer' = r.buffer /\ txq' = r.txq
    /\ ret' = Ret("autoFlush", TRUE, NoOp, << >>, 0)
    /\ UNCHANGED <<db, messages, channels, now>>
    /\ UNCHANGED cryptoVars
    /\ UNCHANGED appVars

\* the opening of getMessagesByChannel, getMessagesByBucket, getPendingMessages,
\* updateMessageStatus and deleteExpiredMessages: init, then wal.flush, then
\* (once that flush is done) the operation's own transaction
CallStore(op) ==
    /\ Len(txq) < MaxTx
    /\ db' = TRUE
    /\ LET r == flush(TRUE, buffer, txq, op)
       IN  /\ buffer' = r.buffer
           /\ txq' = IF r.started THEN r.txq ELSE Append(txq, OpTx(op))
    /\ ret' = Ret("call", TRUE, NoOp, << >>, 0)
    /\ UNCHANGED <<messages, channels, now>>
    /\ UNCHANGED cryptoVars

\* the same with the application around the store left alone
Call(op) == CallStore(op) /\ UNCHANGED appVars

\* PinDatabase.addMessageDirect(message): init, then a put without the WAL
addMessageDirect(message) ==
    /\ Len(txq) < MaxTx
    /\ db' = TRUE
    /\ txq' = Append(txq, OpTx(Op("addMessageDirect", message.channelId, message.id,
                                  "", <<message>>, {})))
    /\ ret' = Ret("call", TRUE, NoOp, << >>, 0)
    /\ UNCHANGED <<buffer, messages, channels, now>>
    /\ UNCHANGED cryptoVars
    /\ UNCHANGED appVars

\* the opening of deleteMessage, clearAllMessages and clearAll: init, then the
\* operation's own transaction; the WAL is not looked at
CallDirect(op) ==
    /\ Len(txq) < MaxTx
    /\ db' = TRUE
    /\ txq' = Append(txq, OpTx(op))
    /\ ret' = Ret("call", TRUE, NoOp, << >>, 0)
    /\ UNCHANGED <<buffer, messages, channels, now>>
    /\ UNCHANGED cryptoVars
    /\ UNCHANGED appVars

(***************************************************************************)
(* Index cursors and the operations' own transactions                      *)
(***************************************************************************)
Min(a, b) == IF a < b THEN a ELSE b

\* an index cursor over rows with equal index key walks them by primary key
RECURSIVE AscendingIds(_)
AscendingIds(ids) ==
    IF ids = {} THEN << >>
    ELSE LET least == CHOOSE i \in ids : \A j \in ids : i <= j
         IN  <<least>> \o AscendingIds(ids \ {least})

Reverse(q) == [i \in 1..Len(q) |-> q[Len(q) + 1 - i]]

\* index.openCursor(IDBKeyRange.upperBound(now)) on by-expires: keys <= now
expiredRange(store, t) == {i \in DOMAIN store : store[i].expiresAt <= t}

\* getMessagesByChannel, per row: restore content from encryptedContent
rehydrate(row) ==
    IF row.content = Sentinel THEN [row EXCEPT !.content = row.encryptedContent]
    ELSE row

\* getMessagesByChannel after its flush: cursor 'prev' over by-channel, at most
\* limit rows, reversed
getMessagesByChannel(store, channelId, limit) ==
    LET ids == {i \in DOMAIN store : store[i].channelId = channelId}
        prev == Reverse(AscendingIds(ids))
        taken == SubSeq(prev, 1, Min(limit, Len(prev)))
    IN  Reverse([k \in 1..Len(taken) |-> rehydrate(store[taken[k]])])

\* getMessagesByBucket after its flush: by-channel-bucket getAll
getMessagesByBucket(store, channelId, bucketId) ==
    LET asc == AscendingIds({i \in DOMAIN store :
                               /\ store[i].channelId = channelId
                               /\ store[i].bucketId = bucketId})
    IN  [k \in 1..Len(asc) |-> store[asc[k]]]

\* getPendingMessages after its flush: by-status getAll('pending')
getPendingMessages(store) ==
    LET asc == AscendingIds({i \in DOMAIN store : store[i].status = "pending"})
    IN  [k \in 1..Len(asc) |-> store[asc[k]]]

\* updateMessageStatus after its flush: get, set status and syncedAt, put
updateMessageStatus(store, id, status, t) ==
    IF id \in DOMAIN store
    THEN [store EXCEPT ![id].status = status, ![id].syncedAt = t]
    ELSE store

\* a sweep that counts the rows but deletes none
deleteExpiredKeepAll(store, t) ==
    [store |-> store, deleted |-> Cardinality(expiredRange(store, t))]

\* deleteExpiredMessages after its flush: delete every row under the cursor
deleteExpiredMessages(store, t) ==
    LET gone == expiredRange(store, t)
    IN  [store |-> [i \in (DOMAIN store) \ gone |-> store[i]],
         deleted |-> Cardinality(gone)]

\* deleteMessage after init: delete(id) on 'messages'
deleteMessage(store, id) == [i \in (DOMAIN store) \ {id} |-> store[i]]

\* objectStore(name).clear() of clearAllMessages and clearAll
clear(store) == [i \in {} |-> store[i]]

IsRead(kind) == kind \in {"getMessagesByChannel", "getMessagesByBucket",
                          "getPendingMessages"}

\* no write is buffered or queued
Quiet(buf, q) ==
    /\ buf = << >>
    /\ \A i \in DOMAIN q : q[i].kind = "op" /\ (IsRead(q[i].op.kind)
                                               \/ q[i].op.kind = "deleteExpiredMessages")

\* the transaction at the head of the queue runs and commits
TxCompleteStore ==
    /\ txq # << >>
    /\ LET h == Head(txq)
           op == h.op
       IN  IF h.kind = "flush"
           THEN /\ messages' = PutAll(messages, h.msgs)
                /\ txq' = IF op.kind = "none" THEN Tail(txq)
                          ELSE Append(Tail(txq), OpTx(op))
                /\ ret' = Ret("flushed", TRUE, NoOp, << >>, 0)
           ELSE /\ txq' = Tail(txq)
                /\ CASE op.kind = "getMessagesByChannel" ->
                          /\ ret' = Ret(op.kind, TRUE, op,
                                        getMessagesByChannel(messages, op.channelId, op.arg),
                                        0)
                          /\ UNCHANGED messages
                     [] op.kind = "getMessagesByBucket" ->
                          /\ ret' = Ret(op.kind, TRUE, op,
                                        getMessagesByBucket(messages, op.channelId, op.arg),
                                        0)
                          /\ UNCHANGED messages
                     [] op.kind = "getPendingMessages" ->
                          /\ ret' = Ret(op.kind, TRUE, op, getPendingMessages(messages),
                                        0)
                          /\ UNCHANGED messages
                     [] op.kind = "updateMessageStatus" ->
                          /\ messages' = updateMessageStatus(messages, op.arg, op.status, now)
                          /\ ret' = Ret(op.kind, TRUE, op, << >>, 0)
                     [] op.kind = "deleteExpiredMessages" ->
                          LET r == deleteExpiredMessages(messages, now)
                          IN  /\ messages' = r.store
                              /\ ret' = Ret(op.kind, TRUE, op, << >>, r.deleted)
                     [] op.kind = "addMessageDirect" ->
                          /\ messages' = Put(messages, flushRow(op.msg[1]))
                          /\ ret' = Ret(op.kind, TRUE, op, << >>, 0)
                     [] op.kind = "deleteMessage" ->
                          /\ messages' = deleteMessage(messages, op.arg)
                          /\ ret' = Ret(op.kind, TRUE, op, << >>, 0)
                     [] op.kind \in {"clearAllMessages", "clearAll"} ->
                          /\ messages' = clear(messages)
                          /\ ret' = Ret(op.kind, TRUE, op, << >>, 0)
    /\ channels' = IF Head(txq).kind = "op" /\ Head(txq).op.kind = "clearAll"
                   THEN clear(channels) ELSE channels
    /\ UNCHANGED <<db, buffer, now>>
    /\ UNCHANGED cryptoVars

\* the same with the application around the store left alone
TxComplete == TxCompleteStore /\ UNCHANGED appVars

\* the readwrite transaction at the head of the queue aborts (storage error):
\* nothing of it is written; flush() rejects, and so does the operation awaiting it
TxAbortStore ==
    /\ txq # << >>
    /\ LET h == Head(txq)
       IN  /\ h.kind = "flush" \/ ~IsRead(h.op.kind)
           /\ ret' = Ret("abort", FALSE, h.op, << >>, 0)
    /\ txq' = Tail(txq)
    /\ UNCHANGED <<db, buffer, messages, channels, now>>
    /\ UNCHANGED cryptoVars

\* the same with the application around the store left alone
TxAbort == TxAbortStore /\ UNCHANGED appVars

\* Date.now() advances
Tick ==
    /\ now < MaxTime
    /\ now' = now + 1
    /\ ret' = Ret("tick", TRUE, NoOp, << >>, 0)
    /\ UNCHANGED <<db, buffer, messages, channels, txq>>
    /\ UNCHANGED cryptoVars
    /\ UNCHANGED appVars


(***************************************************************************)
(* ConversationScreen.createAndSendMessage (text message), store side      *)
(***************************************************************************)
\* PinDatabase.updateChannelLastMessage(channelId, message, time)
updateChannelLastMessage(store, channelId, message, time) ==
    IF channelId \in DOMAIN store
    THEN [store EXCEPT ![channelId].lastMessage = message,
                       ![channelId].lastMessageTime = time]
    ELSE store

\* expireHours as a lifetime: 0 ('nunca') stands for one year; hourMs is the
\* length of an hour in clock units (60 * 60 * 1000 when the clock runs in ms)
lifetime(expireHours, hourMs) ==
    IF expireHours = 0 THEN 365 * 24 * hourMs ELSE expireHours * hourMs

\* createAndSendMessage(content, 'text'): localMsg carries the text in content
\* and in encryptedContent; addMessage; the channel preview is the text
createAndSendMessageAt(id, activeChannelId, content, expiresAt) ==
    LET localMsg == LocalMessage(id, activeChannelId, content, content, now,
                                 expiresAt, "pending")
        r == append(db, buffer, txq, localMsg)
    IN  /\ Len(txq) < MaxTx
        /\ buffer' = r.buffer
        /\ txq' = r.txq
        /\ db' = TRUE
        /\ channels' = updateChannelLastMessage(channels, activeChannelId, content, now)
        /\ ret' = Ret("addMessage", TRUE, NoOp, << >>, 0)
        /\ UNCHANGED <<messages, now>>
        /\ UNCHANGED cryptoVars

\* the same with no channel setting and no 'pin-msg-expire' entry: 8 hours
createAndSendMessage(id, activeChannelId, content) ==
    createAndSendMessageAt(id, activeChannelId, content,
                           now + lifetime(8, 60 * 60 * 1000))

\* Date.now() advances by d
TimePasses(d) ==
    /\ now < MaxTime
    /\ now' = now + d
    /\ ret' = Ret("tick", TRUE, NoOp, << >>, 0)
    /\ UNCHANGED <<db, buffer, messages, channels, txq>>
    /\ UNCHANGED cryptoVars
    /\ UNCHANGED appVars

(***************************************************************************)
(* Admission service (schema SQL): active_sessions and heartbeat().        *)
(* Each heartbeat() call is one READ COMMITTED transaction: a statement    *)
(* sees the committed rows and the call's own writes, a row written by a   *)
(* call stays locked until that call commits or aborts.  The ceiling of    *)
(* 180 sessions is scaled down to Capacity.                                *)
(***************************************************************************)
MaxUsers == 3       \* identities that heartbeat
Capacity == 2       \* the ceiling on active sessions (180 in the schema)
MaxHb == 2          \* heartbeat() calls running at once
MaxLeaseTime == 2   \* the server clock runs 1..MaxLeaseTime

Users == 1..MaxUsers
NoUser == 0

\* a row of active_sessions
Session(last_heartbeat, status, is_typing) ==
    [last_heartbeat |-> last_heartbeat, status |-> status, is_typing |-> is_typing]
NoSession == Session(0, "none", FALSE)

HbIdle == [pc |-> "idle", active_count |-> 0, startedAt |-> 0, own |-> NoSession,
           victim |-> NoUser, wroteVictim |-> FALSE]

\* what supabase.rpc('heartbeat') resolves to: data.status, or an error
HbResult(u, ok, status, active_count) ==
    Ret("heartbeat", ok, [NoOp EXCEPT !.arg = u, !.status = status], << >>, active_count)

\* SELECT count(*) FROM active_sessions WHERE status = 'active'
activeCount(table) ==
    Cardinality({u \in DOMAIN table : table[u].status = "active"})

\* the upsert of heartbeat(): INSERT ... ON CONFLICT (user_id) DO UPDATE
upsertRow(table, u, active_count, t) ==
    IF u \in DOMAIN table
    THEN [table[u] EXCEPT !.last_heartbeat = t,
                          !.status = IF active_count < Capacity THEN "active" ELSE @]
    ELSE Session(t, IF active_count < Capacity THEN "active" ELSE "queued", FALSE)

\* the rows a call sees: the committed ones under its own upsert
seenBy(table, u, own) ==
    [v \in (DOMAIN table) \cup {u} |-> IF v = u THEN own ELSE table[v]]

\* SELECT user_id ... WHERE status = 'active' AND is_typing = false
\* ORDER BY last_heartbeat ASC LIMIT 1: the candidates (ties are all candidates)
oldestIdle(table) ==
    LET idle == {v \in DOMAIN table :
                    table[v].status = "active" /\ ~table[v].is_typing}
    IN  {v \in idle : \A w \in idle : table[v].last_heartbeat <= table[w].last_heartbeat}

\* rows written by calls other than u's and not yet committed
lockedByOthers(u) ==
    {v \in Users : v # u /\ hbTx[v].pc \in {"upserted", "picked", "evicted"}}
    \cup {hbTx[v].victim : v \in {w \in Users \ {u} : hbTx[w].wroteVictim}}

Running == {u \in Users : hbTx[u].pc # "idle"}

\* a statement of a running call: nothing is returned yet
HbStatement == Ret("statement", TRUE, NoOp, << >>, 0)

\* heartbeat() begins: the count of active sessions
HbCount(u) ==
    /\ hbTx[u].pc = "idle"
    /\ Cardinality(Running) < MaxHb
    /\ hbTx' = [hbTx EXCEPT ![u] = [HbIdle EXCEPT !.pc = "counted",
                                                  !.active_count = activeCount(sessions),
                                                  !.startedAt = now]]
    /\ ret' = HbStatement
    /\ UNCHANGED <<sessions, conn, relay, hook>>
    /\ UNCHANGED <<cryptoVars, storeData, historyVars, clientVars>>

\* the upsert of the caller's row
HbUpsert(u) ==
    /\ hbTx[u].pc = "counted"
    /\ u \notin lockedByOthers(u)
    /\ hbTx' = [hbTx EXCEPT ![u].pc = "upserted",
                            ![u].own = upsertRow(sessions, u, hbTx[u].active_count,
                                                 hbTx[u].startedAt)]
    /\ ret' = HbStatement
    /\ UNCHANGED <<sessions, conn, relay, hook>>
    /\ UNCHANGED <<cryptoVars, storeData, historyVars, clientVars>>

\* IF active_count >= 180: the subquery picks the session to disconnect
HbPick(u) ==
    /\ hbTx[u].pc = "upserted"
    /\ LET cand == IF hbTx[u].active_count >= Capacity
                   THEN oldestIdle(seenBy(sessions, u, hbTx[u].own))
                   ELSE {}
       IN  IF cand = {}
           THEN hbTx' = [hbTx EXCEPT ![u].pc = "evicted"]
           ELSE \E v \in cand : hbTx' = [hbTx EXCEPT ![u].pc = "picked", ![u].victim = v]
    /\ ret' = HbStatement
    /\ UNCHANGED <<sessions, conn, relay, hook>>
    /\ UNCHANGED <<cryptoVars, storeData, historyVars, clientVars>>

\* UPDATE active_sessions SET status = 'queued' WHERE user_id = (the pick)
HbEvict(u) ==
    /\ hbTx[u].pc = "picked"
    /\ hbTx[u].victim \notin lockedByOthers(u)
    /\ hbTx' = [hbTx EXCEPT
                  ![u].pc = "evicted",
                  ![u].wroteVictim = (hbTx[u].victim # u),
                  ![u].own = IF hbTx[u].victim = u THEN [@ EXCEPT !.status = "queued"]
                             ELSE @]
    /\ ret' = HbStatement
    /\ UNCHANGED <<sessions, conn, relay, hook>>
    /\ UNCHANGED <<cryptoVars, storeData, historyVars, clientVars>>

\* the call returns its row's status and its writes become visible
HbReturn(u) ==
    /\ hbTx[u].pc = "evicted"
    /\ LET t == hbTx[u]
           mine == seenBy(sessions, u, t.own)
       IN  /\ sessions' = IF t.wroteVictim /\ t.victim \in DOMAIN mine
                          THEN [mine EXCEPT ![t.victim].status = "queued"]
                          ELSE mine
           /\ hbTx' = [hbTx EXCEPT ![u] = HbIdle]
           /\ ret' = HbResult(u, TRUE, t.own.status, t.active_count)
    /\ UNCHANGED <<conn, relay, hook>>
    /\ UNCHANGED <<cryptoVars, storeData, historyVars, clientVars>>

\* the call fails (deadlock, timeout, connection loss): nothing it wrote is kept
HbFail(u) ==
    /\ hbTx[u].pc # "idle"
    /\ hbTx' = [hbTx EXCEPT ![u] = HbIdle]
    /\ ret' = HbResult(u, FALSE, "", 0)
    /\ UNCHANGED <<sessions, conn, relay, hook>>
    /\ UNCHANGED <<cryptoVars, storeData, historyVars, clientVars>>

\* a client updates is_typing on its own row (row-level policy on active_sessions)
SetTyping(u) ==
    /\ u \in DOMAIN sessions
    /\ u \notin lockedByOthers(NoUser)
    /\ sessions' = [sessions EXCEPT ![u].is_typing = ~@]
    /\ ret' = HbStatement
    /\ UNCHANGED <<hbTx, conn, relay, hook>>
    /\ UNCHANGED <<cryptoVars, storeData, historyVars, clientVars>>

(***************************************************************************)
(* useConnectionManager (mounted by the app shell) and the realtime        *)
(* subscription of ConversationScreen.  A state change and the effects     *)
(* that re-run because of it are one step.                                 *)
(***************************************************************************)
MaxRpc == 2         \* heartbeat RPCs awaiting their result at once

NoChannelId == ""

\* channelRef.current: null, or a RealtimeChannel that is joined or was removed
NoChannel == [topic |-> NoChannelId, live |-> FALSE]

\* what supabase.rpc('heartbeat') can resolve to
RpcResults == {"active", "queued", "nodata", "error", "throw"}

\* the hook and the store fields it reads, before the first effect ran
ConnIdle ==
    [identity |-> FALSE, connectionStatus |-> "offline", activeChannelId |-> NoChannelId,
     isVisible |-> TRUE, heartbeatRef |-> FALSE, pollRef |-> FALSE, expiryRef |-> FALSE,
     channelRef |-> NoChannel, rpc |-> 0, screenSub |-> "none",
     pollChannel |-> NoChannelId, isOtherTyping |-> FALSE, typingTimeout |-> FALSE,
     subs |-> << >>]

ConnRet(event, ok, status) ==
    Ret(event, ok, [NoOp EXCEPT !.status = status], << >>, 0)

\* sendHeartbeat up to the RPC: nothing without an identity
sendHeartbeat(c) ==
    IF c.identity THEN [c EXCEPT !.rpc = @ + 1] ELSE c

\* subscribeToChannel(channelId) as rendered under connectionStatus c.connectionStatus
subscribeToChannel(c, channelId) ==
    LET removed == [c EXCEPT !.channelRef.live = FALSE]
    IN  IF c.connectionStatus # "active" THEN removed
        ELSE [removed EXCEPT !.channelRef = [topic |-> channelId, live |-> TRUE]]

\* the effect 'Subscribe to active channel'
subscribeEffect(c) ==
    IF c.activeChannelId # NoChannelId /\ c.connectionStatus = "active" /\ c.isVisible
    THEN subscribeToChannel(c, c.activeChannelId)
    ELSE c

\* a failed heartbeat that reports the lease as queued
heartbeatFailedQueued(c) == [c EXCEPT !.connectionStatus = "queued"]

\* sendHeartbeat: the error branch and the catch
heartbeatFailed(c) == [c EXCEPT !.connectionStatus = "offline"]

\* sendHeartbeat: data arrived; status = data?.status || 'queued'
heartbeatStatus(c, status) ==
    LET set == [c EXCEPT !.connectionStatus = status]
        cut == IF status = "queued" /\ c.channelRef # NoChannel
               THEN [set EXCEPT !.channelRef = NoChannel]
               ELSE set
    IN  IF status # c.connectionStatus THEN subscribeEffect(cut) ELSE cut

\* setIdentity(identity): the effect 'Start Heartbeat' runs
Login ==
    /\ ~conn.identity
    /\ conn.rpc < MaxRpc
    /\ conn' = [sendHeartbeat([conn EXCEPT !.identity = TRUE])
                   EXCEPT !.heartbeatRef = TRUE, !.expiryRef = TRUE]
    /\ ret' = ConnRet("setIdentity", TRUE, "")
    /\ UNCHANGED <<sessions, hbTx, relay, mem, jobs, remote, hook>>
    /\ UNCHANGED <<cryptoVars, storeData, historyVars>>

\* setIdentity(null): the cleanup of 'Start Heartbeat' clears the three
\* intervals and removes the channel; the refs keep their values
Logout ==
    /\ conn.identity
    /\ conn' = [conn EXCEPT !.identity = FALSE, !.heartbeatRef = FALSE,
                            !.pollRef = FALSE, !.expiryRef = FALSE,
                            !.channelRef.live = FALSE,
                            !.screenSub = "none"]
    /\ ret' = ConnRet("setIdentity", TRUE, "")
    /\ UNCHANGED <<sessions, hbTx, relay, mem, jobs, remote, hook>>
    /\ UNCHANGED <<cryptoVars, storeData, historyVars>>

\* the heartbeat interval fires
HeartbeatTick ==
    /\ conn.heartbeatRef
    /\ conn.rpc < MaxRpc
    /\ conn' = sendHeartbeat(conn)
    /\ ret' = ConnRet("heartbeatTick", TRUE, "")
    /\ UNCHANGED <<sessions, hbTx, relay, mem, jobs, remote, hook>>
    /\ UNCHANGED <<cryptoVars, storeData, historyVars>>

\* a heartbeat RPC resolves with r and sendHeartbeat runs to its end
HeartbeatResult(r) ==
    /\ conn.rpc > 0
    /\ LET c == [conn EXCEPT !.rpc = @ - 1]
       IN  conn' = IF r \in {"error", "throw"} THEN heartbeatFailed(c)
                   ELSE heartbeatStatus(c, IF r = "nodata" THEN "queued" ELSE r)
    /\ ret' = ConnRet("sendHeartbeat", r \notin {"error", "throw"}, r)
    /\ UNCHANGED <<sessions, hbTx, relay, mem, jobs, remote, hook>>
    /\ UNCHANGED <<cryptoVars, storeData, historyVars>>

\* ChatsScreen opens a chat: setActiveChannelId(channel.id); the manager's
\* subscribe effect runs and ConversationScreen mounts and asks for its own
\* subscription (which needs identity.pin)
OpenChat(channelId) ==
    /\ conn.activeChannelId = NoChannelId
    /\ conn' = [subscribeEffect([conn EXCEPT !.activeChannelId = channelId])
                   EXCEPT !.screenSub = IF conn.identity THEN "pending" ELSE "none"]
    /\ ret' = ConnRet("openChat", TRUE, "")
    /\ UNCHANGED <<sessions, hbTx, relay, mem, jobs, remote, hook>>
    /\ UNCHANGED <<cryptoVars, storeData, historyVars>>

\* ConversationScreen goes back: setCurrentScreen('chats'),
\* setActiveChannelId(null); the screen unmounts: sub.unsubscribe(), the typing
\* timeout is cleared and the screen's state is gone
CloseChat ==
    /\ conn.activeChannelId # NoChannelId
    /\ conn' = [conn EXCEPT !.activeChannelId = NoChannelId, !.screenSub = "none",
                            !.isOtherTyping = FALSE, !.typingTimeout = FALSE]
    /\ ret' = ConnRet("closeChat", TRUE, "")
    /\ UNCHANGED <<sessions, hbTx, relay, mem, jobs, remote, hook>>
    /\ UNCHANGED <<cryptoVars, storeData, historyVars>>

\* syncService.subscribeToChannel: ensureChat resolved, the channel subscribes
\* (ok), or ensureChat threw
ScreenSubscribed(ok) ==
    /\ conn.screenSub = "pending"
    /\ conn' = [conn EXCEPT !.screenSub = IF ok THEN "live" ELSE "none"]
    /\ ret' = ConnRet("subscribed", ok, "")
    /\ UNCHANGED <<sessions, hbTx, relay, mem, jobs, remote, hook>>
    /\ UNCHANGED <<cryptoVars, storeData, historyVars>>

\* handleVisibility
Visibility ==
    /\ conn' = IF conn.isVisible
               THEN [conn EXCEPT !.isVisible = FALSE, !.channelRef = NoChannel,
                                 !.pollRef = TRUE,
                                 !.pollChannel = conn.activeChannelId]
               ELSE LET c == sendHeartbeat([conn EXCEPT !.isVisible = TRUE])
                        sub == IF c.activeChannelId # NoChannelId
                                  /\ c.connectionStatus = "active"
                               THEN subscribeToChannel(c, c.activeChannelId)
                               ELSE c
                    IN  [sub EXCEPT !.pollRef = FALSE]
    /\ conn'.rpc <= MaxRpc
    /\ ret' = ConnRet("visibilitychange", TRUE, "")
    /\ UNCHANGED <<sessions, hbTx, relay, mem, jobs, remote, hook>>
    /\ UNCHANGED <<cryptoVars, storeData, historyVars>>

\* handleOffline
Offline ==
    /\ conn' = [conn EXCEPT !.connectionStatus = "offline"]
    /\ ret' = ConnRet("offline", TRUE, "")
    /\ UNCHANGED <<sessions, hbTx, relay, mem, jobs, remote, hook>>
    /\ UNCHANGED <<cryptoVars, storeData, historyVars>>

(***************************************************************************)
(* CrossTabService: one instance per browsing context (tab), all on the    *)
(* BroadcastChannel 'pin-crosstab'.  postMessage queues the message for    *)
(* every other open channel object; a closed channel dispatches nothing.   *)
(***************************************************************************)
MaxInbox == 1       \* messages queued for one channel object

Tabs == {"tab1", "tab2"}
Pins == {"11111111", "22222222"}
NoPin == ""
Kinds == {"message", "typing", "delivered", "online"}

\* CrossTabMessage: the fields the relay looks at
CrossTabMessage(type, senderPin) == [type |-> type, senderPin |-> senderPin]

NoHandled == [called |-> FALSE, tab |-> "tab1", myPin |-> NoPin,
              msg |-> CrossTabMessage("online", NoPin)]

\* new CrossTabService()
TabIdle == [channel |-> FALSE, myPin |-> NoPin, handlers |-> FALSE, inbox |-> << >>]

RelayIdle == [tab |-> [t \in Tabs |-> TabIdle], handled |-> NoHandled]

\* BroadcastChannel.postMessage from tab t: queued for every other open channel
postMessage(tab, t, msg) ==
    [u \in Tabs |-> IF u # t /\ tab[u].channel
                    THEN [tab[u] EXCEPT !.inbox = Append(@, msg)]
                    ELSE tab[u]]

\* every open channel but t's has room for one more message
RoomFor(t) == \A u \in Tabs \ {t} : Len(relay.tab[u].inbox) < MaxInbox

\* init(pin): set myPin, close the old channel, open a new one, announce 'online'
XtInit(t, pin) ==
    /\ RoomFor(t)
    /\ LET opened == [relay.tab EXCEPT ![t].myPin = pin, ![t].channel = TRUE,
                                       ![t].inbox = << >>]
       IN  relay' = [relay EXCEPT !.tab = postMessage(opened, t,
                                                      CrossTabMessage("online", pin))]
    /\ UNCHANGED <<sessions, hbTx, conn, mem, jobs, remote, hook>>
    /\ UNCHANGED <<cryptoVars, storeVars>>

\* sendMessage / sendTyping / sendDelivered and the broadcast of
\* createAndSendMessage: senderPin is the tab's own pin
XtSend(t, type) ==
    /\ relay.tab[t].myPin # NoPin
    /\ relay.tab[t].channel
    /\ RoomFor(t)
    /\ relay' = [relay EXCEPT !.tab = postMessage(relay.tab, t,
                                    CrossTabMessage(type, relay.tab[t].myPin))]
    /\ UNCHANGED <<sessions, hbTx, conn, mem, jobs, remote, hook>>
    /\ UNCHANGED <<cryptoVars, storeVars>>

\* onmessage forwarding every message to the handlers
onmessageUnfiltered(t, msg) ==
    IF relay.tab[t].handlers
    THEN [called |-> TRUE, tab |-> t, myPin |-> relay.tab[t].myPin, msg |-> msg]
    ELSE relay.handled

\* channel.onmessage: own messages are ignored, the others go to the handlers
onmessage(t, msg) ==
    IF msg.senderPin = relay.tab[t].myPin
    THEN relay.handled
    ELSE IF relay.tab[t].handlers
         THEN [called |-> TRUE, tab |-> t, myPin |-> relay.tab[t].myPin, msg |-> msg]
         ELSE relay.handled

\* the message event of tab t's channel fires
XtDeliver(t) ==
    /\ relay.tab[t].channel
    /\ relay.tab[t].inbox # << >>
    /\ relay' = [relay EXCEPT !.tab[t].inbox = Tail(@),
                              !.handled = onmessage(t, Head(relay.tab[t].inbox))]
    /\ UNCHANGED <<sessions, hbTx, conn, mem, jobs, remote, hook>>
    /\ UNCHANGED <<cryptoVars, storeVars>>

\* onMessage(handler) and the unsubscribe function it returns
XtOnMessage(t) ==
    /\ relay' = [relay EXCEPT !.tab[t].handlers = ~@]
    /\ UNCHANGED <<sessions, hbTx, conn, mem, jobs, remote, hook>>
    /\ UNCHANGED <<cryptoVars, storeVars>>

\* destroy()
XtDestroy(t) ==
    /\ relay.tab[t] # TabIdle
    /\ relay' = [relay EXCEPT !.tab[t] = TabIdle]
    /\ UNCHANGED <<sessions, hbTx, conn, mem, jobs, remote, hook>>
    /\ UNCHANGED <<cryptoVars, storeVars>>

(***************************************************************************)
(* Delivery status: the in-memory message list (usePinStore), the 300 ms   *)
(* send timer, the cloud send of syncService, the delivery ack of the      *)
(* other tab and syncPendingMessages, over the message store.              *)
(***************************************************************************)
\* usePinStore.addMessage
memAddMessage(list, msg) == Append(list, msg)

\* usePinStore.updateMessageStatus: every entry with that id
memUpdateMessageStatus(list, id, status) ==
    [k \in DOMAIN list |->
        IF list[k].id = id THEN [list[k] EXCEPT !.status = status] ELSE list[k]]

\* syncPendingMessages: not running
SyncIdle == [pc |-> "idle", list |-> << >>, snap |-> {}, submitted |-> {}]

\* no timer is set and no remote call is in flight
JobsIdle == [timers |-> {}, sends |-> {}, acks |-> {}, sync |-> SyncIdle]

\* the sync loop moves on to the next message of its list
syncNext(sync) ==
    [sync EXCEPT !.list = Tail(@),
                 !.pc = IF Len(sync.list) > 1 THEN "inserting" ELSE "idle"]

\* the ids with status pending, buffered or durable
pendingIds ==
    {m.id : m \in {b \in Pending : b.status = "pending"}}
    \cup {i \in DOMAIN messages : messages[i].status = "pending"}

\* createAndSendMessage(content, 'text') as a whole: the store, the in-memory
\* list, the send timer, the cloud send and the broadcast to the other tab
SendMessage(id, content) ==
    /\ conn.activeChannelId # NoChannelId
    /\ conn.identity
    /\ id \notin IdsOf(SeqRange(mem))
    /\ createAndSendMessage(id, conn.activeChannelId, content)
    /\ mem' = memAddMessage(mem, LocalMessage(id, conn.activeChannelId, content, content,
                                              now, now + (8 * 60 * 60 * 1000), "pending"))
    /\ jobs' = [jobs EXCEPT !.timers = @ \cup {id}, !.sends = @ \cup {id},
                            !.acks = @ \cup {id}]
    /\ UNCHANGED <<sessions, hbTx, conn, relay, remote, hook>>

\* setTimeout(() => updateMessageStatus(msgId, 'sent'), 300) fires
SendTimer(id) ==
    /\ id \in jobs.timers
    /\ mem' = memUpdateMessageStatus(mem, id, "sent")
    /\ jobs' = [jobs EXCEPT !.timers = @ \ {id}]
    /\ ret' = ConnRet("sendTimer", TRUE, "sent")
    /\ UNCHANGED <<sessions, hbTx, conn, relay, remote, hook>>
    /\ UNCHANGED <<cryptoVars, storeData>>

\* the other tab's 'delivered' for the open chat reaches the crossTab handler
DeliveredAck(id) ==
    /\ id \in jobs.acks
    /\ conn.activeChannelId # NoChannelId
    /\ mem' = memUpdateMessageStatus(mem, id, "delivered")
    /\ jobs' = [jobs EXCEPT !.acks = @ \ {id}]
    /\ ret' = ConnRet("delivered", TRUE, "delivered")
    /\ UNCHANGED <<sessions, hbTx, conn, relay, remote, hook>>
    /\ UNCHANGED <<cryptoVars, storeData>>

\* syncService.sendMessage after its insert: on success
\* pinDb.updateMessageStatus(msg.id, 'delivered'), on failure an alert
CloudSend(id, ok) ==
    /\ id \in jobs.sends
    /\ IF ok
       THEN CallStore(Op("updateMessageStatus", "", id, "delivered", << >>, {}))
       ELSE /\ ret' = ConnRet("sendMessage", FALSE, "")
            /\ UNCHANGED storeData
            /\ UNCHANGED cryptoVars
    /\ jobs' = [jobs EXCEPT !.sends = @ \ {id}]
    /\ UNCHANGED <<sessions, hbTx, conn, relay, mem, remote, hook>>

\* handleOnline: setIsOnline(true), sendHeartbeat(), syncPendingMessages() up
\* to its getPendingMessages call
handleOnline ==
    /\ jobs.sync.pc = "idle"
    /\ conn.rpc < MaxRpc
    /\ CallStore(Op("getPendingMessages", "", 0, "", << >>, {}))
    /\ conn' = sendHeartbeat(conn)
    /\ jobs' = [jobs EXCEPT !.sync = [pc |-> "reading", list |-> << >>,
                                      snap |-> pendingIds, submitted |-> {}]]
    /\ UNCHANGED <<sessions, hbTx, relay, mem, remote, hook>>

\* syncPendingMessages: the insert of the next pending message returns; on
\* success pinDb.updateMessageStatus(msg.id, 'sent')
SyncInsert(ok) ==
    /\ jobs.sync.pc = "inserting"
    /\ LET id == Head(jobs.sync.list)
       IN  IF ok
           THEN /\ CallStore(Op("updateMessageStatus", "", id, "sent", << >>, {}))
                /\ jobs' = [jobs EXCEPT !.sync.pc = "updating",
                                        !.sync.submitted = @ \cup {id}]
           ELSE /\ ret' = ConnRet("insert", FALSE, "")
                /\ jobs' = [jobs EXCEPT !.sync = [syncNext(@) EXCEPT
                                                    !.submitted = @ \cup {id}]]
                /\ UNCHANGED storeData
                /\ UNCHANGED cryptoVars
    /\ UNCHANGED <<sessions, hbTx, conn, relay, mem, remote, hook>>

\* what the sync loop does when the transaction at the head of the queue
\* ends: it was awaiting it (its read, or its status update), or not
syncAwaits(h) ==
    \/ jobs.sync.pc = "reading" /\ h.op.kind = "getPendingMessages"
    \/ jobs.sync.pc = "updating" /\ h.op.kind = "updateMessageStatus"
                                 /\ h.op.status = "sent"

\* a transaction commits and the call awaiting it continues
ClientTxComplete ==
    /\ TxCompleteStore
    /\ LET h == Head(txq)
       IN  jobs' = IF h.kind = "op" /\ syncAwaits(h)
                   THEN IF h.op.kind = "getPendingMessages"
                        THEN [jobs EXCEPT
                                !.sync.list = [k \in DOMAIN ret'.result |->
                                                 ret'.result[k].id],
                                !.sync.pc = IF ret'.result = << >> THEN "idle"
                                            ELSE "inserting"]
                        ELSE [jobs EXCEPT !.sync = syncNext(@)]
                   ELSE jobs
    /\ UNCHANGED <<sessions, hbTx, conn, relay, mem, remote, hook>>

\* a transaction aborts: getPendingMessages rejects and syncPendingMessages
\* ends; a rejected status update is caught and the loop goes on
ClientTxAbort ==
    /\ TxAbortStore
    /\ LET h == Head(txq)
       IN  jobs' = IF syncAwaits(h)
                   THEN IF h.op.kind = "getPendingMessages"
                        THEN [jobs EXCEPT !.sync.pc = "idle", !.sync.list = << >>]
                        ELSE [jobs EXCEPT !.sync = syncNext(@)]
                   ELSE jobs
    /\ UNCHANGED <<sessions, hbTx, conn, relay, mem, remote, hook>>

(***************************************************************************)
(* Polling (pollForMessages) and the realtime handler of the manager over  *)
(* the backend's messages table.  created_at is a timestamptz (microsecond *)
(* resolution); the sync cursor is a JavaScript time in milliseconds.  A   *)
(* store write of these handlers is taken with its transaction committing  *)
(* at once.                                                                *)
(***************************************************************************)
MaxRemote == 2      \* rows inserted into the backend's messages table
MaxRemoteMs == 1    \* the backend clock runs over 1..MaxRemoteMs milliseconds
MaxPolls == 2       \* pollForMessages calls running at once
MaxPollRuns == 2    \* pollForMessages calls in all

MicrosPerMilli == 1000
POLL_LIMIT == 100

Micros == {0, 250}
CreatedAts == {ms * MicrosPerMilli + us : ms \in 1..MaxRemoteMs, us \in Micros}
PollIds == 1..MaxPolls
RemoteIds == 1..MaxRemote

\* new Date(created_at).getTime(): the time in whole milliseconds
getTime(created_at) == created_at \div MicrosPerMilli

\* new Date(lastSync).toISOString() as a timestamptz
toISOString(lastSync) == lastSync * MicrosPerMilli

RECURSIVE byCreatedAt(_)
\* .order('created_at', { ascending: true })
byCreatedAt(rows) ==
    IF rows = {} THEN << >>
    ELSE LET first == CHOOSE r \in rows : \A q \in rows : r.created_at <= q.created_at
         IN  <<first>> \o byCreatedAt(rows \ {first})

\* the select of pollForMessages
selectNew(rows, channelId, lastSync) ==
    LET hit == byCreatedAt({r \in rows : /\ r.channel_id = channelId
                                         /\ r.created_at > toISOString(lastSync)})
    IN  SubSeq(hit, 1, Min(POLL_LIMIT, Len(hit)))

\* the LocalMessage the poller and the realtime handler build from a row
fromRow(row, t) ==
    [LocalMessage(row.id, row.channel_id, "ct:hello", "ct:hello",
                  getTime(row.created_at),
                  getTime(row.created_at) + (8 * 60 * 60 * 1000), "delivered")
       EXCEPT !.bucketId = row.bucket_id, !.syncedAt = t]

PollIdle == [pc |-> "idle", channelId |-> NoChannelId, lastSync |-> 0,
             fetched |-> << >>, todo |-> << >>, known |-> {}]

\* the backend is empty, the cursor unset, no poll running
RemoteIdle == [rows |-> {}, pushed |-> {}, cursor |-> 0,
               polls |-> [p \in PollIds |-> PollIdle], done |-> {}, runs |-> 0]

\* a peer's insert commits on the backend (bucket_id is the bucket of the
\* peer's message, created in the bucket the insert falls in); a live
\* subscription of the manager on that chat is notified
RemoteCommit(id, created_at) ==
    /\ id \notin IdsOf(remote.rows)
    /\ remote' = [remote EXCEPT
                     !.rows = @ \cup {[id |-> id, channel_id |-> "c1",
                                       bucket_id |-> calculateBucketId(getTime(created_at)),
                                       created_at |-> created_at]},
                     !.pushed = IF conn.channelRef.live /\ conn.channelRef.topic = "c1"
                                THEN @ \cup {id} ELSE @]
    /\ ret' = ConnRet("insert", TRUE, "")
    /\ UNCHANGED <<sessions, hbTx, conn, relay, mem, jobs, hook>>
    /\ UNCHANGED <<cryptoVars, storeData>>

\* the same with every row created later than the rows before it
RemoteInsert(id, created_at) ==
    /\ \A r \in remote.rows : r.created_at < created_at
    /\ RemoteCommit(id, created_at)

\* the postgres_changes handler of the manager's subscription
Realtime(id) ==
    /\ id \in remote.pushed
    /\ txq = << >>
    /\ LET row == CHOOSE r \in remote.rows : r.id = id
           localMsg == fromRow(row, now)
       IN  /\ messages' = Put(messages, flushRow(localMsg))
           /\ mem' = memAddMessage(mem, localMsg)
    /\ db' = TRUE
    /\ remote' = [remote EXCEPT !.pushed = @ \ {id}]
    /\ ret' = ConnRet("realtime", TRUE, "")
    /\ UNCHANGED <<sessions, hbTx, conn, relay, jobs, hook>>
    /\ UNCHANGED <<buffer, channels, txq, now>>
    /\ UNCHANGED cryptoVars

\* the poll interval fires: pollForMessages reads the cursor
PollStart(p) ==
    /\ conn.pollRef
    /\ conn.pollChannel # NoChannelId
    /\ remote.polls[p].pc = "idle"
    /\ remote.runs < MaxPollRuns
    /\ remote' = [remote EXCEPT
                     !.polls[p] = [PollIdle EXCEPT !.pc = "fetching",
                                                   !.channelId = conn.pollChannel,
                                                   !.lastSync = remote.cursor,
                                                   !.known = remote.done],
                     !.runs = @ + 1]
    /\ ret' = ConnRet("pollForMessages", TRUE, "")
    /\ UNCHANGED <<sessions, hbTx, conn, relay, mem, jobs, hook>>
    /\ UNCHANGED <<cryptoVars, storeData>>

\* the select returns
PollFetch(p) ==
    /\ remote.polls[p].pc = "fetching"
    /\ LET newMessages == selectNew(remote.rows, remote.polls[p].channelId,
                                     remote.polls[p].lastSync)
       IN  remote' = [remote EXCEPT
                        !.polls[p] = IF newMessages = << >> THEN PollIdle
                                     ELSE [@ EXCEPT !.pc = "storing",
                                                    !.fetched = newMessages,
                                                    !.todo = newMessages]]
    /\ ret' = ConnRet("select", TRUE, "")
    /\ UNCHANGED <<sessions, hbTx, conn, relay, mem, jobs, hook>>
    /\ UNCHANGED <<cryptoVars, storeData>>

\* the loop body: addMessageDirect(localMsg), addMessage(localMsg)
PollStore(p) ==
    /\ remote.polls[p].pc = "storing"
    /\ remote.polls[p].todo # << >>
    /\ txq = << >>
    /\ LET localMsg == fromRow(Head(remote.polls[p].todo), now)
       IN  /\ messages' = Put(messages, flushRow(localMsg))
           /\ mem' = memAddMessage(mem, localMsg)
    /\ db' = TRUE
    /\ remote' = [remote EXCEPT !.polls[p].todo = Tail(@)]
    /\ ret' = ConnRet("stored", TRUE, "")
    /\ UNCHANGED <<sessions, hbTx, conn, relay, jobs, hook>>
    /\ UNCHANGED <<buffer, channels, txq, now>>
    /\ UNCHANGED cryptoVars

\* after the loop: setLastSyncTime(channel, time of the last message)
PollAdvance(p) ==
    /\ remote.polls[p].pc = "storing"
    /\ remote.polls[p].todo = << >>
    /\ LET fetched == remote.polls[p].fetched
       IN  remote' = [remote EXCEPT
                        !.cursor = getTime(fetched[Len(fetched)].created_at),
                        !.done = @ \cup IdsOf(SeqRange(fetched)),
                        !.polls[p] = PollIdle]
    /\ ret' = ConnRet("setLastSyncTime", TRUE, "")
    /\ UNCHANGED <<sessions, hbTx, conn, relay, mem, jobs, hook>>
    /\ UNCHANGED <<cryptoVars, storeData>>

\* the select or a store call throws: the catch logs, the cursor stays
PollFail(p) ==
    /\ remote.polls[p].pc # "idle"
    /\ remote' = [remote EXCEPT !.polls[p] = PollIdle]
    /\ ret' = ConnRet("pollForMessages", FALSE, "")
    /\ UNCHANGED <<sessions, hbTx, conn, relay, mem, jobs, hook>>
    /\ UNCHANGED <<cryptoVars, storeData>>

(***************************************************************************)
(* useSignalProtocol: ratchetStates.current, one ratchet state per channel *)
(***************************************************************************)
\* Map.get(channelId) is undefined
NoState == << >>

\* no call yet
NoHookCall == [kind |-> "none", channelId |-> "", ok |-> FALSE]

MaxOverlap == 2     \* encrypt calls of the hook suspended at once

\* useRef(new Map()); no encrypt call is suspended and none has returned
HookIdle == [ratchetStates |-> [c \in Channels |-> NoState], call |-> NoHookCall,
             encrypting |-> [n \in 1..MaxOverlap |-> NoState], sent |-> << >>]

\* deriveSimpleKey(pin, channelId): HKDF over pin + channelId
deriveSimpleKey(pin, channelId) == <<pin, channelId, "PIN-Simple-Key", "PIN-E2EE">>

\* a hook that keeps one state for all channels
setStateShared(states, channelId, state) == [c \in DOMAIN states |-> state]

\* ratchetStates.current.set(channelId, state)
setState(states, channelId, state) == [states EXCEPT ![channelId] = state]

\* `if (!state)`: initRatchet on the demo key, stored before the call goes on
ensureState(channelId, isInitiator, k) ==
    IF hook.ratchetStates[channelId] # NoState
    THEN hook.ratchetStates
    ELSE setState(hook.ratchetStates, channelId,
                  initRatchet(deriveSimpleKey("default", channelId), isInitiator, k))

\* ratchetEncrypt / ratchetDecrypt calls that returned, over all channels
hookCalls ==
    LET n(c) == IF hook.ratchetStates[c] = NoState THEN 0
                ELSE hook.ratchetStates[c].sendCount + hook.ratchetStates[c].receiveCount
    IN  n("c1") + n("c2")

\* useSignalProtocol.encrypt(plaintext, channelId)
HookEncrypt(channelId) ==
    /\ hookCalls < MaxCalls
    /\ \E iv \in Ivs, k \in CallKeys :
         LET states == ensureState(channelId, TRUE, k)
             r == ratchetEncrypt("hello", states[channelId], iv)
         IN  hook' = [hook EXCEPT
                        !.ratchetStates = setState(states, channelId, r.newState),
                        !.call = [kind |-> "encrypt", channelId |-> channelId,
                                  ok |-> TRUE]]
    /\ UNCHANGED <<sessions, hbTx, conn, relay, mem, jobs, remote>>
    /\ UNCHANGED <<cryptoVars, storeVars>>

\* useSignalProtocol.decrypt(payload, channelId): null when ratchetDecrypt throws
HookDecrypt(channelId) ==
    /\ hookCalls < MaxCalls
    /\ \E k0 \in CallKeys, k \in CallKeys :
         LET states == ensureState(channelId, FALSE, k0)
         IN  \E payload \in PayloadInputs(states[channelId]) :
                LET r == ratchetDecrypt(payload, states[channelId], k)
                IN  hook' = [hook EXCEPT
                               !.ratchetStates =
                                   IF r.ok THEN setState(states, channelId, r.newState)
                                   ELSE states,
                               !.call = [kind |-> "decrypt", channelId |-> channelId,
                                         ok |-> r.ok]]
    /\ UNCHANGED <<sessions, hbTx, conn, relay, mem, jobs, remote>>
    /\ UNCHANGED <<cryptoVars, storeVars>>

\* encrypt up to its await of ratchetEncrypt: the state of the channel is read
\* (and made when missing); call n is suspended with that state
EncryptBegin(n, channelId) ==
    /\ hook.encrypting[n] = NoState
    /\ Len(hook.sent)
         + Cardinality({m \in 1..MaxOverlap : hook.encrypting[m] # NoState}) < MaxCalls
    /\ \E k \in CallKeys :
         LET states == ensureState(channelId, TRUE, k)
         IN  hook' = [hook EXCEPT
                        !.ratchetStates = states,
                        !.encrypting[n] = [channelId |-> channelId,
                                           state |-> states[channelId]],
                        !.call = [kind |-> "begin", channelId |-> channelId,
                                  ok |-> TRUE]]
    /\ UNCHANGED <<sessions, hbTx, conn, relay, mem, jobs, remote>>
    /\ UNCHANGED <<cryptoVars, storeVars>>

\* ratchetEncrypt resolves for call n: the new state is stored, the payload
\* returned
EncryptEnd(n) ==
    /\ hook.encrypting[n] # NoState
    /\ \E iv \in Ivs :
         LET e == hook.encrypting[n]
             r == ratchetEncrypt("hello", e.state, iv)
         IN  hook' = [hook EXCEPT
                        !.ratchetStates = setState(@, e.channelId, r.newState),
                        !.encrypting[n] = NoState,
                        !.sent = Append(@, [channelId |-> e.channelId,
                                            payload |-> r.payload]),
                        !.call = [kind |-> "encrypt", channelId |-> e.channelId,
                                  ok |-> TRUE]]
    /\ UNCHANGED <<sessions, hbTx, conn, relay, mem, jobs, remote>>
    /\ UNCHANGED <<cryptoVars, storeVars>>

(***************************************************************************)
(* Initial states                                                          *)
(***************************************************************************)
CryptoIdle ==
    /\ x3dh = [X3dhIdle(1, 1, 1) EXCEPT !.phase = "off"]
    /\ ratchet = [p \in Party |-> initRatchet(NoKey, FALSE, 1)]
    /\ net = [p \in Party |-> << >>]
    /\ sentPlain = [p \in Party |-> << >>]
    /\ lastDec = NoDecrypt

\* nothing of the application has run
AppIdle ==
    /\ sessions = << >>
    /\ hbTx = [u \in Users |-> HbIdle]
    /\ conn = ConnIdle
    /\ relay = RelayIdle
    /\ mem = << >>
    /\ jobs = JobsIdle
    /\ remote = RemoteIdle
    /\ hook = HookIdle

\* new PinDatabase(): no connection, empty buffer; the stores are empty but for
\* the rows of the open channels
StoreInit ==
    /\ db = FALSE
    /\ buffer = << >>
    /\ messages = << >>
    /\ channels = [c \in Channels |-> [lastMessage |-> "", lastMessageTime |-> 0]]
    /\ txq = << >>
    /\ now = 1
    /\ ret = NoRet
    /\ addedLog = {}
    /\ touched = {}
    /\ sweptAt = 0

(***************************************************************************)
(* Key agreement alone                                                     *)
(***************************************************************************)
InitX3DH ==
    /\ \E ikA \in PrivKeys, ikB \in PrivKeys, spkB \in PrivKeys :
         x3dh = X3dhIdle(ikA, ikB, spkB)
    /\ ratchet = [p \in Party |-> initRatchet(NoKey, FALSE, 1)]
    /\ net = [p \in Party |-> << >>]
    /\ sentPlain = [p \in Party |-> << >>]
    /\ lastDec = NoDecrypt
    /\ StoreInit
    /\ AppIdle

NextX3DH == X3dhSender \/ X3dhReceiver

SpecX3DH == InitX3DH /\ [][NextX3DH]_vars

(***************************************************************************)
(* A session: both sides run initRatchet on the agreed secret              *)
(***************************************************************************)
InitRatchet ==
    /\ \E ek \in PrivKeys, kA \in PrivKeys, kB \in PrivKeys :
         LET secret == x3dhSenderSecret(1, ek, exportKey(PublicOf(2)),
                                        exportKey(PublicOf(3)))
         IN  /\ x3dh = [phase |-> "session", ikA |-> 1, ikB |-> 2, spkB |-> 3,
                        ephemeralPublicKey |-> exportKey(PublicOf(ek)),
                        senderSecret |-> secret, receiverSecret |-> secret]
             /\ ratchet = [p \in Party |->
                             IF p = "A" THEN initRatchet(secret, TRUE, kA)
                             ELSE initRatchet(secret, FALSE, kB)]
    /\ net = [p \in Party |-> << >>]
    /\ sentPlain = [p \in Party |-> << >>]
    /\ lastDec = NoDecrypt
    /\ StoreInit
    /\ AppIdle

EncryptAny == \E p \in Party : Encrypt(p)
DecryptAny == \E p \in Party : Decrypt(p)

NextRatchet == EncryptAny \/ DecryptAny

SpecRatchet == InitRatchet /\ [][NextRatchet]_vars

\* C2: once the receiver has run x3dhReceiver on the sender's identity key and
\* the ephemeral key x3dhSender returned, both hold the same shared secret.
C2_X3dhSymmetric ==
    x3dh.phase = "agreed" => x3dh.receiverSecret = x3dh.senderSecret

C2_Witness ==
    /\ x3dh.phase = "agreed"
    /\ x3dh.senderSecret # NoKey
    /\ x3dh.ikA # x3dh.ikB
    /\ x3dh.ikB # x3dh.spkB
    /\ x3dh.senderSecret[1] # x3dh.senderSecret[2]

\* C1: every decrypt of a payload delivered in order, between two ratchet
\* states initialised from one root secret, returns the plaintext that was
\* encrypted.
C1_RoundTrip ==
    lastDec.called => (lastDec.ok /\ lastDec.plaintext = lastDec.sent)

(***************************************************************************)
(* Decryption failures: a party sends when its peer has taken every        *)
(* earlier payload                                                         *)
(***************************************************************************)
FailSend == \E p \in Party : net[Peer(p)] = << >> /\ Encrypt(p)
FailReceive == \E p \in Party : Decrypt(p)

NextFail == FailSend \/ FailReceive

SpecFail == InitRatchet /\ [][NextFail]_vars

\* the step in which p's decrypt call takes the next payload and fails
DecryptFails(p) ==
    /\ net[p] # << >>
    /\ net'[p] = Tail(net[p])
    /\ lastDec'.called
    /\ lastDec'.by = p
    /\ ~lastDec'.ok

ChainSteps == 3     \* consecutive steps of one sending chain that are compared

CallEncrypts == \E p \in Party : CallEncrypt(p)
CallDecrypts == \E p \in Party : CallDecrypt(p)

NextCalls == CallEncrypts \/ CallDecrypts

\* initRatchet(secret, true) and initRatchet(secret, false) on one shared secret
InitCalls ==
    LET secret == x3dhSenderSecret(1, 1, exportKey(PublicOf(2)), exportKey(PublicOf(3)))
    IN  /\ x3dh = [phase |-> "session", ikA |-> 1, ikB |-> 2, spkB |-> 3,
                   ephemeralPublicKey |-> exportKey(PublicOf(1)),
                   senderSecret |-> secret, receiverSecret |-> secret]
        /\ ratchet = [p \in Party |->
                        IF p = "A" THEN initRatchet(secret, TRUE, 1)
                        ELSE initRatchet(secret, FALSE, 1)]
        /\ net = [p \in Party |-> << >>]
        /\ sentPlain = [p \in Party |-> << >>]
        /\ lastDec = NoDecrypt
        /\ StoreInit
        /\ AppIdle

SpecCalls == InitCalls /\ [][NextCalls]_vars

\* the results of n consecutive ratchetEncrypt calls starting from state
RECURSIVE encryptRun(_, _)
encryptRun(state, n) ==
    IF n = 0 THEN << >>
    ELSE LET r == ratchetEncrypt("hello", state, 1)
         IN  <<r>> \o encryptRun(r.newState, n - 1)

\* the key a payload was sealed under
sealedUnder(payload) == payload.ciphertext.key

\* C21: along a sending chain the message key of a step opens no message of
\* another step (neither the next step's key an earlier message nor an earlier
\* key a later message), and no message key equals a chain key of the chain.
C21_ChainForwardSecrecy ==
    \A p \in Party :
        LET run == encryptRun(ratchet[p], ChainSteps)
            steps == 1..ChainSteps
        IN  /\ \A i \in steps, j \in steps :
                  i # j => ~decryptOk(run[i].payload.ciphertext, run[i].payload.iv,
                                      sealedUnder(run[j].payload))
            /\ \A i \in steps, j \in steps :
                  sealedUnder(run[i].payload) # run[j].newState.sendingChainKey
            /\ \A i \in steps :
                  sealedUnder(run[i].payload) # ratchet[p].sendingChainKey

\* a party that has sent twice on its chain: the message it sent last does not
\* open under the key its next ratchetEncrypt derives
C21_Witness ==
    \E p \in Party :
        /\ ~lastDec.called
        /\ lastDec.by = p
        /\ ratchet[p].sendCount = 2
        /\ ratchet[p].sendingChainKey # NoKey
        /\ net[p] # << >>
        /\ ~decryptOk(net[p][1].ciphertext, net[p][1].iv,
                      deriveMessageKey(ratchet[p].sendingChainKey).messageKey)

\* the step is a ratchetDecrypt call on p's state that returned
DecryptReturns(p) ==
    /\ lastDec'.called
    /\ lastDec'.by = p
    /\ lastDec'.ok

\* C27: ratchetDecrypt performs a DH ratchet step exactly when the payload's
\* ratchet key differs from the last-seen remote key: on a payload that carries
\* the key seen last, the local ratchet key pair, the remote key and the sending
\* chain key stay as they were and the receiving chain advances by one step; on
\* a payload with another key the remote key becomes the payload's.
C27_StepOnlyOnNewKey ==
    [][\A p \in Party :
         (DecryptReturns(p) /\ net'[p][1].ratchetPub # "")
         => LET remoteKey == importPublicKey(net'[p][1].ratchetPub)
            IN  IF remoteKey = ratchet[p].receivingRatchetKey
                THEN /\ ratchet'[p].sendingRatchetKey = ratchet[p].sendingRatchetKey
                     /\ ratchet'[p].receivingRatchetKey = ratchet[p].receivingRatchetKey
                     /\ ratchet'[p].sendingChainKey = ratchet[p].sendingChainKey
                     /\ ratchet'[p].receivingChainKey =
                            deriveMessageKey(ratchet[p].receivingChainKey).nextChainKey
                ELSE ratchet'[p].receivingRatchetKey = remoteKey]_vars

\* the step is a ratchetEncrypt call on p's state
EncryptReturns(p) ==
    /\ ~lastDec'.called
    /\ lastDec'.by = p
    /\ net'[p] # << >>

\* C28: both counters start at 0; a ratchetEncrypt that returns adds exactly 1
\* to the send counter, keeps the receive counter and numbers its payload with
\* the new send counter; a ratchetDecrypt that returns adds exactly 1 to the
\* receive counter and keeps the send counter; a call that throws changes
\* neither.
C28_Counters ==
    /\ \A p \in Party : ratchet[p].sendCount = 0 /\ ratchet[p].receiveCount = 0
    /\ [][\A p \in Party :
            /\ EncryptReturns(p)
               => /\ ratchet'[p].sendCount = ratchet[p].sendCount + 1
                  /\ ratchet'[p].receiveCount = ratchet[p].receiveCount
                  /\ net'[p][1].messageNumber = ratchet'[p].sendCount
            /\ DecryptReturns(p)
               => /\ ratchet'[p].receiveCount = ratchet[p].receiveCount + 1
                  /\ ratchet'[p].sendCount = ratchet[p].sendCount
            /\ ratchet'[p].sendCount >= ratchet[p].sendCount
            /\ ratchet'[p].receiveCount >= ratchet[p].receiveCount]_vars

\* a state that has been through two encrypts and one decrypt that returned
\* after a ratchet step: the payload in hand is numbered 2
C28_Witness ==
    \E p \in Party :
        /\ ~lastDec.called
        /\ lastDec.by = p
        /\ ratchet[p].sendCount = 2
        /\ ratchet[p].receiveCount = 1
        /\ ratchet[p].receivingRatchetKey # NoRatchetKey
        /\ net[p][1].messageNumber = 2


(***************************************************************************)
(* The hook's encrypt and decrypt over two channels                        *)
(***************************************************************************)
InitHook == CryptoIdle /\ StoreInit /\ AppIdle

HookEncrypts == \E c \in Channels : HookEncrypt(c)
HookDecrypts == \E c \in Channels : HookDecrypt(c)

NextHook == HookEncrypts \/ HookDecrypts

SpecHook == InitHook /\ [][NextHook]_vars

\* C29: an encrypt or a decrypt on channel c, failing or not, leaves the ratchet
\* state kept for every other channel as it was.
C29_ChannelIsolation ==
    [][\A c \in Channels :
         hook'.call.channelId = c
         => \A d \in Channels \ {c} : hook'.ratchetStates[d] = hook.ratchetStates[d]]_vars

\* a decrypt on c2 has just failed while c1 holds a state that has sent, and
\* c2 holds the responder state the call created
C29_Witness ==
    /\ hook.call.kind = "decrypt"
    /\ ~hook.call.ok
    /\ hook.call.channelId = "c2"
    /\ hook.ratchetStates["c1"] # NoState
    /\ hook.ratchetStates["c1"].sendCount > 0
    /\ hook.ratchetStates["c2"] # NoState
    /\ hook.ratchetStates["c2"].receiveCount = 0
    /\ hook.ratchetStates["c1"] # hook.ratchetStates["c2"]

(***************************************************************************)
(* The store under writes, status updates and storage errors               *)
(***************************************************************************)
InitStore == CryptoIdle /\ StoreInit /\ AppIdle

StoreIds == {1, 2}
EightHours == 8 * 60 * 60 * 1000

\* messages from the cloud as the poller hands them to addMessageDirect
StoreInputs(status) ==
    {LocalMessage(i, "c1", "hello", "ct:hello", now, now + EightHours, status) :
        i \in StoreIds}

Room == Len(buffer) < MaxBuf
NoHistory == UNCHANGED historyVars

StoreSend ==
    \E i \in StoreIds :
        Room /\ createAndSendMessage(i, "c1", "hello") /\ NoHistory /\ UNCHANGED appVars

StoreAddDirect == \E m \in StoreInputs("delivered") : addMessageDirect(m) /\ NoHistory

StoreUpdate ==
    \E i \in StoreIds :
        Call(Op("updateMessageStatus", "", i, "sent", << >>, {})) /\ NoHistory

StoreInit_ == init /\ NoHistory
StoreAutoFlush == AutoFlush /\ NoHistory
StoreTxComplete == TxComplete /\ NoHistory
StoreTxAbort == TxAbort /\ NoHistory

NextStore ==
    \/ StoreInit_
    \/ StoreSend
    \/ StoreAddDirect
    \/ StoreAutoFlush
    \/ StoreUpdate
    \/ StoreTxComplete
    \/ StoreTxAbort

SpecStore == InitStore /\ [][NextStore]_vars

(***************************************************************************)
(* The store under writes and reads; the history of addMessage is recorded *)
(***************************************************************************)
ReadInputs ==
    {LocalMessage(i, f[1], "hello", "ct:hello", now, now + EightHours, f[2]) :
        i \in StoreIds,
        f \in {<<"c1", "pending">>, <<"c1", "delivered">>, <<"c2", "pending">>}}

ReadOps ==
    {Op("getMessagesByChannel", c, limit, "", << >>, addedLog) :
        c \in Channels, limit \in {1, 50}}
    \cup {Op("getMessagesByBucket", c, calculateBucketId(now), "", << >>, addedLog) :
            c \in Channels}
    \cup {Op("getPendingMessages", "", 0, "", << >>, addedLog)}

ReadAdd ==
    \E m \in ReadInputs :
        /\ Len(buffer) < MaxAdds
        /\ Cardinality(addedLog \cup {m}) <= MaxAdds
        /\ addMessage(m)
        /\ addedLog' = addedLog \cup {m}
        /\ touched' = IF m.id \in IdsOf(addedLog \ {m}) THEN touched \cup {m.id}
                      ELSE touched
        /\ UNCHANGED sweptAt

ReadCall == \E op \in ReadOps : Call(op) /\ NoHistory

NextRead ==
    \/ StoreInit_
    \/ ReadAdd
    \/ StoreAutoFlush
    \/ ReadCall
    \/ StoreTxComplete
    \/ StoreTxAbort

SpecRead == InitStore /\ [][NextRead]_vars

(***************************************************************************)
(* Channel reads over rows with any ids and creation times                 *)
(***************************************************************************)
QueryInputs ==
    {LocalMessage(i, c, "hello", "ct:hello", t, t + EightHours, "pending") :
        i \in StoreIds, c \in Channels, t \in {1, 2}}

QueryAdd ==
    \E m \in QueryInputs : Room /\ addMessage(m) /\ NoHistory

QueryCall ==
    \E c \in Channels, limit \in {1, 50} :
        Call(Op("getMessagesByChannel", c, limit, "", << >>, {})) /\ NoHistory

NextQuery ==
    \/ StoreInit_
    \/ QueryAdd
    \/ StoreAutoFlush
    \/ QueryCall
    \/ StoreTxComplete

SpecQuery == InitStore /\ [][NextQuery]_vars

(***************************************************************************)
(* The expiry sweep against the clock; addedLog holds the ids of the       *)
(* messages added since the last sweep was called, sweptAt the clock value *)
(* of the last sweep with no write since, touched the clock values at      *)
(* which a sweep was repeated                                              *)
(***************************************************************************)
ExpiryInputs ==
    {LocalMessage(i, "c1", "hello", "ct:hello", 1, e, "pending") :
        i \in StoreIds, e \in 1..MaxTime}

SweepRoom == Len(txq) < MaxSweepTx

ExpiryAdd ==
    \E m \in ExpiryInputs :
        /\ Room
        /\ SweepRoom
        /\ m.id \notin IdsOf(Pending) \cup DOMAIN messages
        /\ addMessage(m)
        /\ addedLog' = addedLog \cup {m.id}
        /\ sweptAt' = 0
        /\ UNCHANGED touched

ExpiryCall ==
    /\ SweepRoom
    /\ Call(Op("deleteExpiredMessages", "", 0, "", << >>, {}))
    /\ addedLog' = {}
    /\ UNCHANGED <<touched, sweptAt>>

\* the step in which a sweep's transaction runs
SweepStep ==
    /\ txq # << >>
    /\ Head(txq).kind = "op"
    /\ Head(txq).op.kind = "deleteExpiredMessages"
    /\ txq' = Tail(txq)
    /\ ret'.event = "deleteExpiredMessages"

ExpiryTxComplete ==
    /\ TxComplete
    /\ sweptAt' = IF SweepStep
                  THEN (IF addedLog = {} /\ Quiet(buffer, Tail(txq)) THEN now ELSE 0)
                  ELSE sweptAt
    /\ touched' = IF SweepStep /\ sweptAt # 0 /\ sweptAt = now
                  THEN touched \cup {now} ELSE touched
    /\ UNCHANGED addedLog

ExpiryTick == Tick /\ NoHistory

ExpiryAutoFlush == SweepRoom /\ AutoFlush /\ NoHistory

NextExpiry ==
    \/ StoreInit_
    \/ ExpiryAdd
    \/ ExpiryAutoFlush
    \/ ExpiryTick
    \/ ExpiryCall
    \/ ExpiryTxComplete
    \/ StoreTxAbort

SpecExpiry == InitStore /\ [][NextExpiry]_vars

(***************************************************************************)
(* The write-ahead log up to its threshold: the k-th call adds message k   *)
(***************************************************************************)
WalAdd ==
    LET m == LocalMessage(Cardinality(addedLog) + 1, "c1", "hello", "ct:hello",
                          now, now + EightHours, "pending")
    IN  /\ Cardinality(addedLog) < MaxWalAdds
        /\ addMessage(m)
        /\ addedLog' = addedLog \cup {m}
        /\ UNCHANGED <<touched, sweptAt>>

NextWal ==
    \/ StoreInit_
    \/ WalAdd
    \/ StoreAutoFlush
    \/ StoreTxComplete

SpecWal == InitStore /\ [][NextWal]_vars

(***************************************************************************)
(* Append order: threshold flushes, timer flushes and the flush before a   *)
(* read overlap; the k-th call adds message k                              *)
(***************************************************************************)
OrderRead == Call(Op("getPendingMessages", "", 0, "", << >>, {})) /\ NoHistory

\* a storage error aborts a transaction while nothing is durable yet
OrderTxAbort == DOMAIN messages = {} /\ StoreTxAbort

NextOrder ==
    \/ StoreInit_
    \/ WalAdd
    \/ StoreAutoFlush
    \/ OrderRead
    \/ StoreTxComplete
    \/ OrderTxAbort

SpecOrder == InitStore /\ [][NextOrder]_vars

\* C30: whenever a message is durable, every message appended before it is
\* durable too.
C30_FlushKeepsAppendOrder ==
    \A m1 \in addedLog, m2 \in addedLog :
        (m1.id < m2.id /\ m2.id \in DOMAIN messages) => m1.id \in DOMAIN messages

(***************************************************************************)
(* Per-channel expiry: the clock counts hours; c1 is set to 0 (never), c2  *)
(* to 8 hours                                                              *)
(***************************************************************************)
expirationHours == [c \in Channels |-> IF c = "c1" THEN 0 ELSE 8]

NeverSend ==
    \E i \in StoreIds, c \in Channels :
        /\ Room
        /\ SweepRoom
        /\ i \notin IdsOf(Pending) \cup DOMAIN messages
        /\ createAndSendMessageAt(i, c, "hello", now + lifetime(expirationHours[c], 1))
        /\ NoHistory
        /\ UNCHANGED appVars

NeverSweep ==
    /\ SweepRoom
    /\ Call(Op("deleteExpiredMessages", "", 0, "", << >>, {}))
    /\ NoHistory

NeverTick == \E d \in {1, 8, 365 * 24} : TimePasses(d) /\ NoHistory

NextNever ==
    \/ StoreInit_
    \/ NeverSend
    \/ StoreAutoFlush
    \/ NeverTick
    \/ NeverSweep
    \/ StoreTxComplete

SpecNever == InitStore /\ [][NextNever]_vars

\* C23: a sweep removes no message of a channel whose expiry setting is 0,
\* whatever the clock shows.
C23_NeverExpires ==
    [][SweepStep =>
          \A i \in DOMAIN messages :
              expirationHours[messages[i].channelId] = 0 => i \in DOMAIN messages']_vars

\* the texts users type: what must not be at rest
UserTexts == {"hello"}

\* C3: no durable message row and no durable channel row holds the plaintext
\* of a message, in content, in encryptedContent or in the channel's preview.
C3_NoPlaintextAtRest ==
    /\ \A i \in DOMAIN messages :
          /\ messages[i].content \notin UserTexts
          /\ messages[i].encryptedContent \notin UserTexts
    /\ \A c \in DOMAIN channels : channels[c].lastMessage \notin UserTexts

\* C4: every row of the durable message store has the sentinel as its content,
\* whichever of flush, addMessageDirect and updateMessageStatus wrote it last.
C4_ContentIsSentinel ==
    \A i \in DOMAIN messages : messages[i].content = Sentinel

C4_Witness ==
    /\ ret.event = "updateMessageStatus"
    /\ ret.op.arg \in DOMAIN messages
    /\ messages[ret.op.arg].status = "sent"
    /\ \E i \in DOMAIN messages : messages[i].status = "delivered"
    /\ messages[ret.op.arg].encryptedContent \in UserTexts

\* whether message m passes the filter of read operation op
Matches(op, m) ==
    CASE op.kind = "getMessagesByChannel" -> m.channelId = op.channelId
      [] op.kind = "getMessagesByBucket" ->
            m.channelId = op.channelId /\ m.bucketId = op.arg
      [] op.kind = "getPendingMessages" -> m.status = "pending"
      [] OTHER -> FALSE

\* whether the rows of the read's channel all fit its limit
FitsLimit(op) ==
    op.kind = "getMessagesByChannel" =>
        Cardinality({i \in DOMAIN messages : messages[i].channelId = op.channelId})
            <= op.arg

\* row is message m as stored and read back (content aside)
SameMessage(row, m) == [row EXCEPT !.content = m.content] = m

\* C5: a read that returns includes every message that was passed to addMessage
\* before the read was called, matches the read's filter and fits its limit
\* (messages whose id was written again, updated or swept are left aside).
C5_ReadAfterWrite ==
    (IsRead(ret.event) /\ ret.ok) =>
        \A m \in ret.op.snap :
            (/\ m.id \notin touched
             /\ m.expiresAt > now
             /\ Matches(ret.op, m)
             /\ FitsLimit(ret.op))
            => \E k \in DOMAIN ret.result : SameMessage(ret.result[k], m)

\* C7: when a flush transaction aborts, its messages are back in the WAL buffer
\* and the failure reaches the caller of the write.
C7_FailedFlushRetried ==
    [][(ret'.event = "abort" /\ txq # << >> /\ Head(txq).kind = "flush"
        /\ txq' = Tail(txq))
       => (/\ \A m \in SeqRange(Head(txq).msgs) : m \in SeqRange(buffer')
           /\ ret'.op.kind = "addMessage")]_vars


Last(q) == q[Len(q)]

\* the step in which a flush transaction commits
FlushCommitStep ==
    /\ txq # << >>
    /\ Head(txq).kind = "flush"
    /\ ret'.event = "flushed"

C8_MostRecentAscending ==
    (ret.event = "getMessagesByChannel" /\ ret.ok) =>
        LET ids == {i \in DOMAIN messages : messages[i].channelId = ret.op.channelId}
            got == {ret.result[k].id : k \in DOMAIN ret.result}
        IN  /\ Len(ret.result) = Min(ret.op.arg, Cardinality(ids))
            /\ got \subseteq ids
            /\ \A k \in 1..(Len(ret.result) - 1) :
                  ret.result[k].createdAt <= ret.result[k + 1].createdAt
            /\ \A i \in got, j \in ids \ got :
                  messages[j].createdAt <= messages[i].createdAt

\* C9: a sweep at time now removes the rows whose expiresAt is earlier than now
\* and keeps the rows whose expiresAt is now or later.
C9_ExpiryBoundary ==
    [][SweepStep =>
          \A i \in DOMAIN messages :
              (i \in DOMAIN messages') <=> (messages[i].expiresAt >= now)]_vars

\* C10: a sweep that returns has removed every stored message whose expiry has
\* passed, and with no addMessage since it was called none is left buffered
\* either; it returns the number of rows it removed; and a sweep at the clock
\* value of the previous one, with no write since, returns 0 and changes nothing.
C10_SweepCompleteIdempotent ==
    [][SweepStep =>
          /\ \A i \in DOMAIN messages' : messages'[i].expiresAt >= now
          /\ addedLog = {} => \A m \in SeqRange(buffer') : m.expiresAt >= now
          /\ ret'.count = Cardinality((DOMAIN messages) \ (DOMAIN messages'))
          /\ \A i \in DOMAIN messages' : messages'[i] = messages[i]
          /\ (sweptAt # 0 /\ sweptAt = now) =>
                (ret'.count = 0 /\ messages' = messages)]_vars

C10_Witness ==
    /\ ret.event = "deleteExpiredMessages"
    /\ ret.count = 0
    /\ now \in touched
    /\ messages # << >>
    /\ now > 1

(***************************************************************************)
(* The admission service under concurrent heartbeats                       *)
(***************************************************************************)
LeaseCount == \E u \in Users : HbCount(u)
LeaseUpsert == \E u \in Users : HbUpsert(u)
LeasePick == \E u \in Users : HbPick(u)
LeaseEvict == \E u \in Users : HbEvict(u)
LeaseReturn == \E u \in Users : HbReturn(u)
LeaseFail == \E u \in Users : HbFail(u)
LeaseTyping == \E u \in Users : SetTyping(u)
LeaseTick == now < MaxLeaseTime /\ Tick /\ NoHistory

NextLease ==
    \/ LeaseCount
    \/ LeaseUpsert
    \/ LeasePick
    \/ LeaseEvict
    \/ LeaseReturn
    \/ LeaseFail
    \/ LeaseTyping
    \/ LeaseTick

SpecLease == InitStore /\ [][NextLease]_vars

\* the step in which u's heartbeat() returns
ReturnStep(u) ==
    /\ hbTx[u].pc = "evicted"
    /\ hbTx'[u].pc = "idle"
    /\ ret'.event = "heartbeat"
    /\ ret'.ok

queuedIn(table) == {v \in DOMAIN table : table[v].status = "queued"}

\* C12: when Capacity identities are active, none is queued and one more
\* identity heartbeats (alone), exactly one identity is queued afterwards, and
\* it is one that was active, not typing, with the oldest last heartbeat.
C12_AdmissionCap ==
    [][\A u \in Users :
         (/\ ReturnStep(u)
          /\ u \notin DOMAIN sessions
          /\ Running = {u}
          /\ hbTx[u].active_count = Capacity
          /\ activeCount(sessions) = Capacity
          /\ queuedIn(sessions) = {})
         => (/\ Cardinality(queuedIn(sessions')) = 1
             /\ queuedIn(sessions') \subseteq oldestIdle(sessions))]_vars

\* C13: the number of sessions with status active never exceeds the ceiling.
C13_ActiveWithinCapacity == activeCount(sessions) <= Capacity

(***************************************************************************)
(* The admission service when clients stop calling: one heartbeat() at a   *)
(* time; the clock advances and a call that has started runs to its end    *)
(***************************************************************************)
LapseCount == \E u \in Users : Running = {} /\ HbCount(u)

NextLapse ==
    \/ LapseCount
    \/ LeaseUpsert
    \/ LeasePick
    \/ LeaseEvict
    \/ LeaseReturn
    \/ LeaseFail
    \/ LeaseTyping
    \/ LeaseTick

SpecLapse ==
    /\ InitStore
    /\ [][NextLapse]_vars
    /\ WF_vars(LeaseTick)
    /\ WF_vars(LeaseUpsert \/ LeasePick \/ LeaseEvict \/ LeaseReturn)

\* the admission service counts u as active
countedActive(u) == u \in DOMAIN sessions /\ sessions[u].status = "active"

\* C24: an identity whose heartbeats stop for good is, from some time on, no
\* longer counted as active.
C24_LeaseLapses ==
    \A u \in Users :
        <>[](hbTx[u].pc = "idle") => <>[](~countedActive(u))

(***************************************************************************)
(* The cross-tab relay: two tabs that log in, re-initialise and publish    *)
(***************************************************************************)
RelayInit == \E t \in Tabs, pin \in Pins : XtInit(t, pin)
RelaySend == \E t \in Tabs, type \in Kinds \ {"online"} : XtSend(t, type)
RelayDeliver == \E t \in Tabs : XtDeliver(t)
RelayOnMessage == \E t \in Tabs : XtOnMessage(t)
RelayDestroy == \E t \in Tabs : XtDestroy(t)

NextRelay ==
    \/ RelayInit
    \/ RelaySend
    \/ RelayDeliver
    \/ RelayOnMessage
    \/ RelayDestroy

SpecRelay == InitStore /\ [][NextRelay]_vars

\* C14: a handler registered in a tab is never invoked with a message whose
\* senderPin is that tab's own pin, whatever the message kind and however
\* often the tabs re-initialise the relay.
C14_NoLoopback ==
    relay.handled.called => relay.handled.msg.senderPin # relay.handled.myPin

\* a handler ran in one tab while the other tab, logged in under the same
\* pin as the sender, has taken everything queued for it
C14_Witness ==
    /\ relay.handled.called
    /\ relay.handled.msg.type = "delivered"
    /\ \E t \in Tabs \ {relay.handled.tab} :
         /\ relay.tab[t].myPin = relay.handled.msg.senderPin
         /\ relay.tab[t].channel
         /\ relay.tab[t].handlers
         /\ relay.tab[t].inbox = << >>

(***************************************************************************)
(* The connection manager under heartbeat results, visibility changes,     *)
(* chats opening and closing, login and logout                             *)
(***************************************************************************)
ConnResult == \E r \in RpcResults : HeartbeatResult(r)
ConnOpenChat == \E c \in Channels : OpenChat(c)
ConnSubscribed == \E ok \in BOOLEAN : ScreenSubscribed(ok)

NextConn ==
    \/ Login
    \/ Logout
    \/ HeartbeatTick
    \/ ConnResult
    \/ ConnOpenChat
    \/ CloseChat
    \/ ConnSubscribed
    \/ Visibility
    \/ Offline

SpecConn == InitStore /\ [][NextConn]_vars

\* the live realtime subscriptions of the process on the messages of a chat
liveSubscriptions(c, channelId) ==
    (IF c.channelRef.live /\ c.channelRef.topic = channelId THEN 1 ELSE 0)
    + (IF c.screenSub = "live" /\ c.activeChannelId = channelId THEN 1 ELSE 0)

\* C15: at every moment the process holds at most one live realtime
\* subscription per chat channel.
C15_OneSubscriptionPerChannel ==
    \A channelId \in Channels : liveSubscriptions(conn, channelId) <= 1

\* C16: whenever an identity is loaded and the lease status is queued or the
\* context is in the background, no realtime subscription is live and the
\* polling timer is running.
C16_QueuedOrHiddenPolls ==
    (conn.identity /\ (conn.connectionStatus = "queued" \/ ~conn.isVisible))
    => (/\ \A channelId \in Channels : liveSubscriptions(conn, channelId) = 0
        /\ conn.pollRef)

\* C18: a heartbeat RPC that fails (error result or exception) sets the
\* connection status to offline, not queued, and leaves the heartbeat, poll
\* and expiry timers as they were: the heartbeat timer stays scheduled.
C18_FailedHeartbeatOffline ==
    [][(ret'.event = "sendHeartbeat" /\ ~ret'.ok)
       => (/\ conn'.connectionStatus = "offline"
           /\ conn'.heartbeatRef = conn.heartbeatRef
           /\ conn'.pollRef = conn.pollRef
           /\ conn'.expiryRef = conn.expiryRef)]_vars

\* a thrown heartbeat just handled while the lease was queued before, with the
\* heartbeat, poll and expiry timers all scheduled
C18_Witness ==
    /\ ret.event = "sendHeartbeat"
    /\ ~ret.ok
    /\ ret.op.status = "throw"
    /\ conn.connectionStatus = "offline"
    /\ conn.heartbeatRef
    /\ conn.pollRef
    /\ conn.expiryRef
    /\ conn.rpc > 0

\* the identity has just been unloaded: setIdentity(null) was the last event
Unloaded == ret.event = "setIdentity" /\ ~conn.identity

\* C26: once the identity is unloaded no heartbeat, poll or expiry timer is
\* scheduled, and the next event, unless it loads an identity, starts none.
C26_NoTimerAfterUnload ==
    [][Unloaded =>
          /\ ~conn.heartbeatRef /\ ~conn.pollRef /\ ~conn.expiryRef
          /\ ~conn'.identity =>
                (~conn'.heartbeatRef /\ ~conn'.pollRef /\ ~conn'.expiryRef)]_vars

(***************************************************************************)
(* Delivery status of sent messages in an open chat                        *)
(***************************************************************************)
MaxSent == 1        \* messages sent from the open chat

SentIds == 1..MaxSent

StatusOpenChat == OpenChat("c1")
StatusSend ==
    \E i \in SentIds : Room /\ SendMessage(i, "hello") /\ NoHistory
StatusTimer == \E i \in SentIds : SendTimer(i) /\ NoHistory
StatusAck == \E i \in SentIds : DeliveredAck(i) /\ NoHistory
StatusCloud == \E i \in SentIds, ok \in BOOLEAN : CloudSend(i, ok) /\ NoHistory
StatusOnline == handleOnline /\ NoHistory
StatusInsert == \E ok \in BOOLEAN : SyncInsert(ok) /\ NoHistory
StatusAutoFlush == AutoFlush /\ NoHistory
StatusTxComplete == ClientTxComplete /\ NoHistory
StatusTxAbort == ClientTxAbort /\ NoHistory

NextStatus ==
    \/ Login
    \/ ConnResult
    \/ StatusOpenChat
    \/ StatusSend
    \/ StatusTimer
    \/ StatusAck
    \/ StatusCloud
    \/ StatusOnline
    \/ StatusInsert
    \/ StatusAutoFlush
    \/ StatusTxComplete
    \/ StatusTxAbort

SpecStatus == InitStore /\ [][NextStatus]_vars

\* the status changes the claim allows
Forward == {<<"pending", "sent">>, <<"sent", "delivered">>,
            <<"pending", "failed">>, <<"failed", "pending">>}

Allowed(before, after) == before = after \/ <<before, after>> \in Forward

\* C11: the status of a message, in the durable store and in the in-memory
\* list, only ever changes pending to sent, sent to delivered, pending to
\* failed or failed to pending; a delivered message never becomes sent or
\* pending again.
C11_StatusForwardOnly ==
    [][/\ \A i \in (DOMAIN messages) \cap (DOMAIN messages') :
            Allowed(messages[i].status, messages'[i].status)
       /\ \A k \in (DOMAIN mem) \cap (DOMAIN mem') :
            mem[k].id = mem'[k].id => Allowed(mem[k].status, mem'[k].status)]_vars

\* the step of a network online event, with an identity loaded
OnlineStep ==
    /\ conn.identity
    /\ jobs.sync.pc = "idle"
    /\ jobs'.sync.pc = "reading"

\* the step in which syncPendingMessages ends
SyncEnds == jobs.sync.pc # "idle" /\ jobs'.sync.pc = "idle"

\* the step in which the status update after a successful insert commits
SentCommitted ==
    /\ jobs.sync.pc = "updating"
    /\ jobs'.sync.pc # "updating"
    /\ ret'.event = "updateMessageStatus"
    /\ ret'.ok

\* C19: a network online event sends a heartbeat and starts the sync; when
\* the sync ends, every message that was pending at the event (buffered or
\* durable) was submitted to the backend, unless it stopped being pending
\* meanwhile; a message whose insert succeeded is sent once its status update
\* commits; a failed insert changes no status.
C19_OnlineSubmitsPending ==
    [][/\ OnlineStep => conn'.rpc = conn.rpc + 1
       /\ SyncEnds =>
            \A i \in jobs.sync.snap :
                \/ i \in jobs'.sync.submitted
                \/ i \in DOMAIN messages' /\ messages'[i].status # "pending"
       /\ SentCommitted =>
            \A i \in DOMAIN messages' :
                i = Head(jobs.sync.list) => messages'[i].status = "sent"
       /\ (ret'.event = "insert" /\ ~ret'.ok) => messages' = messages]_vars

\* the step in which the transmission of message id to the backend fails: the
\* insert of syncService.sendMessage, or the insert of syncPendingMessages
TransmitFails(id) ==
    /\ ~ret'.ok
    /\ \/ ret'.event = "sendMessage" /\ id \in jobs.sends \ jobs'.sends
       \/ ret'.event = "insert" /\ jobs.sync.pc = "inserting"
                                /\ id = Head(jobs.sync.list)

\* C25: when the transmission of a message to the backend fails, the message
\* has status failed in the in-memory list and in the store (or in the write
\* that is still on its way to the store).
C25_FailedSendIsFailed ==
    [][\A id \in SentIds :
         TransmitFails(id)
         => /\ \A k \in DOMAIN mem' : mem'[k].id = id => mem'[k].status = "failed"
            /\ id \in DOMAIN messages' => messages'[id].status = "failed"
            /\ \A m \in Pending' : m.id = id => m.status = "failed"]_vars

(***************************************************************************)
(* Polling in the background, realtime in the foreground                   *)
(***************************************************************************)
PollOpenChat == OpenChat("c1")
PollLease == HeartbeatResult("active")
PollInsert ==
    \E id \in RemoteIds, created_at \in CreatedAts :
        RemoteInsert(id, created_at) /\ NoHistory
PollRealtime == \E id \in RemoteIds : Realtime(id) /\ NoHistory
PollStarts == \E p \in PollIds : PollStart(p) /\ NoHistory
PollFetches == \E p \in PollIds : PollFetch(p) /\ NoHistory
PollStores == \E p \in PollIds : PollStore(p) /\ NoHistory
PollAdvances == \E p \in PollIds : PollAdvance(p) /\ NoHistory
PollFails == \E p \in PollIds : PollFail(p) /\ NoHistory

NextPoll ==
    \/ Login
    \/ PollLease
    \/ PollOpenChat
    \/ Visibility
    \/ PollInsert
    \/ PollRealtime
    \/ PollStarts
    \/ PollFetches
    \/ PollStores
    \/ PollAdvances
    \/ PollFails

SpecPoll == InitStore /\ [][NextPoll]_vars

\* C17: a poll never returns a message that an earlier poll had stored and
\* then advanced the sync cursor past (the polls that had done so when this
\* one read the cursor).
C17_PollNeverRepeats ==
    [][\A p \in PollIds :
         (remote.polls[p].pc = "fetching" /\ remote'.polls[p].pc = "storing")
         => IdsOf(SeqRange(remote'.polls[p].fetched)) \cap remote.polls[p].known = {}]_vars

(***************************************************************************)
(* One message on its way into the receiver: the sender's tab broadcasts   *)
(* it on the relay under its local id and the backend holds it as one row  *)
(* under the row's id; the receiver takes it from the ConversationScreen   *)
(* relay handler, from the manager's realtime handler and from the poller. *)
(***************************************************************************)
\* the sender's `msg-${Date.now()}-...` id, never equal to a backend row id
msgId(n) == MaxRemote + n

\* the ConversationScreen handler of crossTab.onMessage for a 'message' of the
\* other tab (text; the payload carries id, content and expiresAt, no
\* createdAt): addMessage, pinDb.addMessage, updateChannelLastMessage,
\* crossTab.sendDelivered from tab t, setIsOtherTyping(false)
onCrossTabMessage(t, id, channelId, content, expiresAt) ==
    LET incomingMsg == [LocalMessage(id, channelId, content, content, now,
                                     expiresAt, "delivered")
                          EXCEPT !.syncedAt = now]
        r == append(db, buffer, txq, incomingMsg)
    IN  /\ channelId = conn.activeChannelId
        /\ Len(txq) < MaxTx
        /\ mem' = memAddMessage(mem, incomingMsg)
        /\ buffer' = r.buffer
        /\ txq' = r.txq
        /\ db' = TRUE
        /\ channels' = updateChannelLastMessage(channels, channelId, content, now)
        /\ relay' = [relay EXCEPT
                       !.tab = IF relay.tab[t].channel
                               THEN postMessage(relay.tab, t,
                                        CrossTabMessage("delivered", relay.tab[t].myPin))
                               ELSE @]
        /\ conn' = [conn EXCEPT !.isOtherTyping = FALSE]
        /\ ret' = Ret("onCrossTabMessage", TRUE, NoOp, << >>, 0)
        /\ UNCHANGED <<messages, now>>
        /\ UNCHANGED <<sessions, hbTx, jobs, remote, hook>>
        /\ UNCHANGED cryptoVars

\* the relay hands the one broadcast to the handler once
ReceiveRelay ==
    /\ addedLog = {}
    /\ onCrossTabMessage("tab1", msgId(1), "c1", "hello", now + EightHours)
    /\ addedLog' = {LocalMessage(msgId(1), "c1", "hello", "hello", now,
                                 now + EightHours, "delivered")}
    /\ UNCHANGED <<touched, sweptAt>>

\* the one row of the message commits on the backend
ReceiveInsert ==
    \E id \in RemoteIds, created_at \in CreatedAts :
        remote.rows = {} /\ RemoteInsert(id, created_at) /\ NoHistory

NextReceive ==
    \/ Login
    \/ PollLease
    \/ PollOpenChat
    \/ Visibility
    \/ ReceiveInsert
    \/ ReceiveRelay
    \/ PollRealtime
    \/ PollStarts
    \/ PollFetches
    \/ PollStores
    \/ PollAdvances
    \/ PollFails
    \/ StoreAutoFlush
    \/ StoreTxComplete

SpecReceive == InitStore /\ [][NextReceive]_vars

\* the receiver's store: the rows and the records still in the log
stored == {messages[i] : i \in DOMAIN messages} \cup Pending

\* C22: once the one message that was sent has been received, the receiver's
\* store and its in-memory list hold exactly one entry, with status delivered
\* and bucket id floor(createdAt / 10 days), whichever paths it came over.
C22_ExactlyOnce ==
    mem # << >> =>
        /\ Len(mem) = 1
        /\ Cardinality(IdsOf(stored)) = 1
        /\ \A m \in stored \cup SeqRange(mem) :
               /\ m.status = "delivered"
               /\ m.bucketId = calculateBucketId(m.createdAt)

(***************************************************************************)
(* What the reads hand back                                                *)
(***************************************************************************)
\* C32: no message returned by getMessagesByChannel, getMessagesByBucket or
\* getPendingMessages has the sentinel as its content.
C32_ReadsRehydrate ==
    (IsRead(ret.event) /\ ret.ok) =>
        \A k \in DOMAIN ret.result : ret.result[k].content # Sentinel

(***************************************************************************)
(* Bucket ids: every path that writes a message, with the clock crossing   *)
(* into the next ten-day bucket                                            *)
(***************************************************************************)
DayMs == 86400000

\* seedDemoData of lib/seed.ts: the welcome message of a bot chat,
\* bucketId: calculateBucketId()
seedWelcome(id, channelId) ==
    [LocalMessage(id, channelId, "hello", "ct:hello", now, now + DayMs, "delivered")
       EXCEPT !.syncedAt = now]

\* seedDemoData of the demo-pair module: the welcome message with bucketId: 0
seedWelcomeDemo(id, channelId) ==
    [seedWelcome(id, channelId) EXCEPT !.bucketId = 0]

\* the LocalMessage syncService.subscribeToChannel builds from a backend row
\* whose created_at is createdAt as a JavaScript time: bucketId: 0
cloudLocalMsg(id, localChannelId, createdAt) ==
    [LocalMessage(id, localChannelId, "[ENCRIPTADO]", "ct:hello", createdAt,
                  now + DayMs, "delivered")
       EXCEPT !.bucketId = 0, !.syncedAt = now]

\* the ConversationScreen callback of that subscription: addMessage (in memory)
\* unless the message is the user's own; senderPin is always 'CLOUD_USER'
onCloudMessage(id, createdAt) ==
    /\ conn.screenSub = "live"
    /\ mem' = memAddMessage(mem, cloudLocalMsg(id, conn.activeChannelId, createdAt))
    /\ ret' = ConnRet("onCloudMessage", TRUE, "")
    /\ UNCHANGED <<sessions, hbTx, conn, relay, jobs, remote, hook>>
    /\ UNCHANGED <<cryptoVars, storeData, historyVars>>

\* ids are made from the clock (msg-, welcome-, row ids): each write is of a
\* message the store does not hold yet
Fresh(id) == id \notin IdsOf(stored) \cup IdsOf(SeqRange(mem))

BucketTick == TimePasses(TEN_DAYS_MS) /\ NoHistory
BucketSend ==
    /\ Fresh(msgId(1))
    /\ createAndSendMessage(msgId(1), "c1", "hello")
    /\ NoHistory
    /\ UNCHANGED appVars
BucketSeed ==
    \E m \in {seedWelcome(msgId(1), "c1"), seedWelcomeDemo(msgId(1), "c1")} :
        Fresh(m.id) /\ addMessage(m) /\ NoHistory
BucketRelay ==
    /\ Fresh(msgId(1))
    /\ onCrossTabMessage("tab1", msgId(1), "c1", "hello", now + EightHours)
    /\ NoHistory
BucketSubscribed == ScreenSubscribed(TRUE)
BucketCloud == Fresh(msgId(1)) /\ onCloudMessage(msgId(1), now)
BucketRead ==
    \E b \in {0, 1} :
        Call(Op("getMessagesByBucket", "c1", b, "", << >>, {})) /\ NoHistory

NextBucket ==
    \/ Login
    \/ PollLease
    \/ PollOpenChat
    \/ BucketSubscribed
    \/ BucketTick
    \/ BucketSend
    \/ BucketSeed
    \/ BucketRelay
    \/ BucketCloud
    \/ ReceiveInsert
    \/ PollRealtime
    \/ BucketRead
    \/ StoreAutoFlush
    \/ StoreTxComplete

SpecBucket == InitStore /\ [][NextBucket]_vars

\* C31: every message held by the store or by the in-memory list has bucket
\* id floor(createdAt / 10 days), whichever path wrote it, and
\* getMessagesByBucket(c, b) returns exactly the rows of channel c whose
\* createdAt falls in bucket b.
C31_BucketFromCreatedAt ==
    /\ \A m \in stored \cup SeqRange(mem) : m.bucketId = calculateBucketId(m.createdAt)
    /\ (ret.event = "getMessagesByBucket" /\ ret.ok) =>
          IdsOf(SeqRange(ret.result)) =
             {i \in DOMAIN messages :
                 /\ messages[i].channelId = ret.op.channelId
                 /\ calculateBucketId(messages[i].createdAt) = ret.op.arg}

(***************************************************************************)
(* The typing indicator of the ConversationScreen: isOtherTyping and the   *)
(* 3 s timeout of typingTimeoutRef.  The handler's effect depends on       *)
(* activeChannelId, which changes only as the screen mounts and unmounts.  *)
(***************************************************************************)
\* the 'typing' branch with no timeout started
typingHandlerNoTimeout(c, isTyping) ==
    [c EXCEPT !.isOtherTyping = isTyping, !.typingTimeout = FALSE]

\* the 'typing' branch: setIsOtherTyping(isTyping), clearTimeout, and a new
\* timeout when isTyping
typingHandler(c, isTyping) ==
    [c EXCEPT !.isOtherTyping = isTyping, !.typingTimeout = isTyping]

\* the handler is invoked with a 'typing' message of the other tab
onTyping(channelId, isTyping) ==
    /\ channelId = conn.activeChannelId
    /\ conn' = typingHandler(conn, isTyping)
    /\ ret' = ConnRet("onTyping", TRUE, "")
    /\ UNCHANGED <<sessions, hbTx, relay, mem, jobs, remote, hook>>
    /\ UNCHANGED <<cryptoVars, storeData, historyVars>>

\* the timeout fires: setIsOtherTyping(false)
TypingTimeout ==
    /\ conn.typingTimeout
    /\ conn' = [conn EXCEPT !.isOtherTyping = FALSE, !.typingTimeout = FALSE]
    /\ ret' = ConnRet("typingTimeout", TRUE, "")
    /\ UNCHANGED <<sessions, hbTx, relay, mem, jobs, remote, hook>>
    /\ UNCHANGED <<cryptoVars, storeData, historyVars>>

TypingReceive == \E c \in Channels, isTyping \in BOOLEAN : onTyping(c, isTyping)
TypingMessage ==
    \E i \in {msgId(1), msgId(2)}, c \in Channels :
        /\ Fresh(i)
        /\ onCrossTabMessage("tab1", i, c, "hello", now + EightHours)
        /\ NoHistory

NextTyping ==
    \/ PollOpenChat
    \/ CloseChat
    \/ TypingReceive
    \/ TypingMessage
    \/ TypingTimeout
    \/ StoreAutoFlush
    \/ StoreTxComplete

SpecTyping == InitStore /\ [][NextTyping]_vars /\ WF_vars(TypingTimeout)

TypingEvents == {"onTyping", "onCrossTabMessage"}

\* C33: when typing and message events stop arriving, the typing indicator is
\* false from some time on: the 3 s timeout of the last typing event fires,
\* whatever typing events, messages and mounts of the screen came before.
C33_TypingExpires ==
    <>[](ret.event \notin TypingEvents) => <>[](~conn.isOtherTyping)

C33_Witness ==
    /\ ret.event = "typingTimeout"
    /\ ~conn.isOtherTyping
    /\ mem # << >>

(***************************************************************************)
(* Deletion against the write-ahead log: addedLog holds the messages       *)
(* passed to addMessage, touched the ids a completed deleteMessage,        *)
(* clearAllMessages or clearAll call was to remove (added before the call) *)
(***************************************************************************)
DeleteOps ==
    {Op("deleteMessage", "", i, "", << >>, addedLog) : i \in StoreIds}
    \cup {Op(k, "", 0, "", << >>, addedLog) : k \in {"clearAllMessages", "clearAll"}}

\* the ids a call of op is to remove
Covered(op) ==
    IF op.kind = "deleteMessage" THEN {op.arg} \cap IdsOf(op.snap)
    ELSE IF op.kind \in {"clearAllMessages", "clearAll"} THEN IdsOf(op.snap)
    ELSE {}

\* each id is passed to addMessage once
DeleteAdd ==
    \E m \in StoreInputs("pending") :
        /\ m.id \notin IdsOf(addedLog)
        /\ addMessage(m)
        /\ addedLog' = addedLog \cup {m}
        /\ UNCHANGED <<touched, sweptAt>>

DeleteCall == \E op \in DeleteOps : CallDirect(op) /\ NoHistory
DeleteRead ==
    \E op \in ReadOps : op.channelId # "c2" /\ op.arg # 1 /\ Call(op) /\ NoHistory

DeleteTxComplete ==
    /\ TxComplete
    /\ touched' = IF Head(txq).kind = "op" THEN touched \cup Covered(Head(txq).op)
                  ELSE touched
    /\ UNCHANGED <<addedLog, sweptAt>>

NextDelete ==
    \/ StoreInit_
    \/ DeleteAdd
    \/ StoreAutoFlush
    \/ DeleteCall
    \/ DeleteRead
    \/ DeleteTxComplete

SpecDelete == InitStore /\ [][NextDelete]_vars

\* C34: once deleteMessage(id), clearAllMessages() or clearAll() has completed,
\* no message it was to remove (added with addMessage before the call) is
\* durable or returned by a read.
C34_DeleteCoversBuffer ==
    \A i \in touched :
        /\ i \notin DOMAIN messages
        /\ (IsRead(ret.event) /\ ret.ok) => i \notin IdsOf(SeqRange(ret.result))

(***************************************************************************)
(* Inserts into the backend's messages table, by the cloud send of         *)
(* createAndSendMessage and by syncPendingMessages: touched holds the ids  *)
(* inserted so far, addedLog the ids inserted again after that             *)
(***************************************************************************)
\* an insert of message id returned ok or not: the history of inserts
Inserted(id, ok) ==
    /\ touched' = IF ok THEN touched \cup {id} ELSE touched
    /\ addedLog' = IF ok /\ id \in touched THEN addedLog \cup {id} ELSE addedLog
    /\ UNCHANGED sweptAt

InsertCloud == \E i \in SentIds, ok \in BOOLEAN : CloudSend(i, ok) /\ Inserted(i, ok)
InsertSync ==
    \E ok \in BOOLEAN :
        /\ SyncInsert(ok)
        /\ Inserted(Head(jobs.sync.list), ok)

NextInsert ==
    \/ Login
    \/ StatusOpenChat
    \/ StatusSend
    \/ StatusTimer
    \/ InsertCloud
    \/ StatusOnline
    \/ InsertSync
    \/ StatusAutoFlush
    \/ StatusTxComplete
    \/ StatusTxAbort

SpecInsert == InitStore /\ [][NextInsert]_vars

\* C35: no locally created message is inserted into the backend a second time,
\* by the cloud send of its creation or by a sync of the pending messages.
C35_InsertedAtMostOnce == addedLog = {}

(***************************************************************************)
(* Encrypt calls of the hook that overlap: hook.sent holds the payloads    *)
(* returned, by channel                                                    *)
(***************************************************************************)
OverlapBegins == \E n \in 1..MaxOverlap, c \in Channels : EncryptBegin(n, c)
OverlapEnds == \E n \in 1..MaxOverlap : EncryptEnd(n)

NextOverlap ==
    \/ OverlapBegins
    \/ OverlapEnds

SpecOverlap == InitHook /\ [][NextOverlap]_vars

\* C36: no two payloads returned for a channel were sealed under the same
\* message key or carry the same messageNumber.
C36_KeysAndNumbersUnique ==
    \A i \in DOMAIN hook.sent, j \in DOMAIN hook.sent :
        (i # j /\ hook.sent[i].channelId = hook.sent[j].channelId) =>
            /\ sealedUnder(hook.sent[i].payload) # sealedUnder(hook.sent[j].payload)
            /\ hook.sent[i].payload.messageNumber # hook.sent[j].payload.messageNumber

(***************************************************************************)
(* The manager's subscription against the connection status                *)
(***************************************************************************)
\* C37: whenever the manager's realtime subscription is live, the connection
\* status is active and the page is in the foreground.
C37_LiveOnlyWhenActive ==
    conn.channelRef.live => (conn.connectionStatus = "active" /\ conn.isVisible)

(***************************************************************************)
(* Relay messages reaching a context whatever it has open: addedLog holds  *)
(* the 'message' messages of the other tab that the channel's onmessage    *)
(* was fired with                                                          *)
(***************************************************************************)
\* onmessage with a 'message' for channelId that no handler takes: no
\* ConversationScreen is mounted (nothing is registered), or its handler
\* returns at `msg.channelId !== activeChannelId`
crossTabDropped(channelId) ==
    /\ channelId # conn.activeChannelId
    /\ ret' = Ret("onCrossTabMessage", FALSE, NoOp, << >>, 0)
    /\ UNCHANGED <<cryptoVars, storeData>>
    /\ UNCHANGED appVars

\* the history of arrivals: each id arrives once
Arrived(i, c) ==
    /\ i \notin IdsOf(addedLog)
    /\ addedLog' = addedLog \cup {[id |-> i, channelId |-> c]}
    /\ UNCHANGED <<touched, sweptAt>>

ArriveHandled ==
    \E i \in {msgId(1), msgId(2)}, c \in Channels :
        onCrossTabMessage("tab1", i, c, "hello", now + EightHours) /\ Arrived(i, c)
ArriveDropped ==
    \E i \in {msgId(1), msgId(2)}, c \in Channels :
        crossTabDropped(c) /\ Arrived(i, c)

NextArrive ==
    \/ PollOpenChat
    \/ CloseChat
    \/ ArriveHandled
    \/ ArriveDropped
    \/ StoreAutoFlush
    \/ StoreTxComplete

SpecArrive == InitStore /\ [][NextArrive]_vars

\* C38: every 'message' of another tab that reached this context, for a
\* channel it has a row of, is in the store (buffered or durable), whatever
\* chat or screen was open when it arrived.
C38_RelayMessagePersisted ==
    \A a \in addedLog : a.channelId \in DOMAIN channels => a.id \in IdsOf(stored)

(***************************************************************************)
(* Polls in sequence in the background while rows commit, some with the    *)
(* creation time of the row before                                         *)
(***************************************************************************)
SkipHide == conn.isVisible /\ Visibility
SkipInsert ==
    \E id \in RemoteIds, created_at \in CreatedAts :
        /\ \A r \in remote.rows : r.created_at <= created_at
        /\ RemoteCommit(id, created_at)
        /\ NoHistory
SkipStarts ==
    \E p \in PollIds :
        /\ \A q \in PollIds : remote.polls[q].pc = "idle"
        /\ PollStart(p)
        /\ NoHistory

NextSkip ==
    \/ PollOpenChat
    \/ SkipHide
    \/ SkipInsert
    \/ SkipStarts
    \/ PollFetches
    \/ PollStores
    \/ PollAdvances

SpecSkip == InitStore /\ [][NextSkip]_vars

\* a row no poll will return: it is not stored, the cursor is at or past its
\* creation time and no poll is running
Skipped(row) ==
    /\ row.id \notin DOMAIN messages
    /\ row.created_at <= toISOString(remote.cursor)
    /\ \A p \in PollIds : remote.polls[p].pc = "idle"

\* C39: polling leaves no remote message behind: no row of the polled channel
\* is unstored with the cursor at or past its creation time, so that the
\* polls to come return every message not stored yet.
C39_PollNeverSkips ==
    \A row \in remote.rows : ~Skipped(row)

\* ---------------------------------------------------------------------------
\* syncService.subscribeToChannel, one closure per call (conn.subs[n]): the
\* flag isUnsubscribed, the variable realSubscription and where the
\* ensureChat promise stands.  The realtime channel is joined from
\* .subscribe() until its unsubscribe() and delivers rows only while joined.
\* ---------------------------------------------------------------------------
MaxSubs == 2        \* calls of subscribeToChannel

NoChat == "null"
ChatIds == {NoChat, "chat-1"}

\* the closure a call creates; ensureChat(localChannelId) has been started
syncSubscribeToChannel(localChannelId) ==
    [channelId |-> localChannelId, isUnsubscribed |-> FALSE,
     realSubscription |-> "null", lookup |-> "pending"]

\* the .then callback with the isUnsubscribed test left out
thenNoFlag(s, chatId) ==
    IF chatId = NoChat
    THEN [s EXCEPT !.lookup = "aborted"]
    ELSE [s EXCEPT !.lookup = "resolved", !.realSubscription = "joined"]

\* ensureChat(...).then(chatId => ...): ABORTED_NO_CHAT, or the channel is
\* built, subscribed and kept in realSubscription
thenEnsureChat(s, chatId) ==
    IF s.isUnsubscribed \/ chatId = NoChat
    THEN [s EXCEPT !.lookup = "aborted"]
    ELSE [s EXCEPT !.lookup = "resolved", !.realSubscription = "joined"]

\* .catch: ERROR_SETUP
catchEnsureChat(s) == [s EXCEPT !.lookup = "failed"]

\* the returned unsubscribe()
unsubscribe(s) ==
    [s EXCEPT !.isUnsubscribed = TRUE,
              !.realSubscription = IF @ = "null" THEN @ ELSE "closed"]

\* the ConversationScreen effect runs for a channel
SubSubscribe(channelId) ==
    /\ Len(conn.subs) < MaxSubs
    /\ conn' = [conn EXCEPT !.subs = Append(@, syncSubscribeToChannel(channelId))]
    /\ ret' = Ret("subscribeToChannel", TRUE, NoOp, << >>, Len(conn.subs) + 1)
    /\ UNCHANGED <<sessions, hbTx, relay, mem, jobs, remote, hook>>
    /\ UNCHANGED <<cryptoVars, storeData, historyVars>>

\* the effect's cleanup: sub.unsubscribe()
SubUnsubscribe(n) ==
    /\ n \in DOMAIN conn.subs
    /\ ~conn.subs[n].isUnsubscribed
    /\ conn' = [conn EXCEPT !.subs[n] = unsubscribe(@)]
    /\ ret' = Ret("unsubscribe", TRUE, NoOp, << >>, n)
    /\ UNCHANGED <<sessions, hbTx, relay, mem, jobs, remote, hook>>
    /\ UNCHANGED <<cryptoVars, storeData, historyVars>>

\* the chat lookup of call n resolves
SubLookup(n, chatId) ==
    /\ n \in DOMAIN conn.subs
    /\ conn.subs[n].lookup = "pending"
    /\ conn' = [conn EXCEPT !.subs[n] = thenEnsureChat(@, chatId)]
    /\ ret' = Ret("ensureChat", chatId # NoChat, NoOp, << >>, n)
    /\ UNCHANGED <<sessions, hbTx, relay, mem, jobs, remote, hook>>
    /\ UNCHANGED <<cryptoVars, storeData, historyVars>>

\* the chat lookup of call n rejects
SubLookupThrows(n) ==
    /\ n \in DOMAIN conn.subs
    /\ conn.subs[n].lookup = "pending"
    /\ conn' = [conn EXCEPT !.subs[n] = catchEnsureChat(@)]
    /\ ret' = Ret("ensureChat", FALSE, NoOp, << >>, n)
    /\ UNCHANGED <<sessions, hbTx, relay, mem, jobs, remote, hook>>
    /\ UNCHANGED <<cryptoVars, storeData, historyVars>>

\* a row is inserted in the chat: the joined channel of call n runs its
\* postgres_changes callback, which runs onMessage: addMessage
SubMessage(n) ==
    /\ n \in DOMAIN conn.subs
    /\ conn.subs[n].realSubscription = "joined"
    /\ Fresh(msgId(n))
    /\ mem' = memAddMessage(mem, cloudLocalMsg(msgId(n), conn.subs[n].channelId, now))
    /\ ret' = Ret("onCloudMessage", TRUE, NoOp, << >>, n)
    /\ UNCHANGED <<sessions, hbTx, conn, relay, jobs, remote, hook>>
    /\ UNCHANGED <<cryptoVars, storeData, historyVars>>

SubSubscribes == \E c \in Channels : SubSubscribe(c)
SubUnsubscribes == \E n \in 1..MaxSubs : SubUnsubscribe(n)
SubLookups == \E n \in 1..MaxSubs, chatId \in ChatIds : SubLookup(n, chatId)
SubThrows == \E n \in 1..MaxSubs : SubLookupThrows(n)
SubMessages == \E n \in 1..MaxSubs : SubMessage(n)

NextSub ==
    \/ SubSubscribes
    \/ SubUnsubscribes
    \/ SubLookups
    \/ SubThrows
    \/ SubMessages

SpecSub == InitStore /\ [][NextSub]_vars

\* C40: once unsubscribe() of a call has run, the call has no joined realtime
\* channel and gets none later, whether unsubscribe() ran before or after the
\* chat lookup resolved, and its message callback does not run any more
C40_UnsubscribeIsFinal ==
    /\ [](\A n \in DOMAIN conn.subs :
            conn.subs[n].isUnsubscribed => conn.subs[n].realSubscription # "joined")
    /\ [][\A n \in DOMAIN conn.subs :
            conn.subs[n].isUnsubscribed =>
                /\ conn.subs'[n].isUnsubscribed
                /\ ~(ret'.event = "onCloudMessage" /\ ret'.count = n)]_vars

\* one call was unsubscribed after its channel was joined and had delivered a
\* message, another before its lookup resolved, and that lookup has resolved
C40_Witness ==
    /\ Len(conn.subs) = 2
    /\ conn.subs[1].isUnsubscribed /\ conn.subs[1].realSubscription = "closed"
    /\ msgId(1) \in IdsOf(SeqRange(mem))
    /\ conn.subs[2].isUnsubscribed /\ conn.subs[2].lookup = "aborted"
    /\ ret.event = "ensureChat" /\ ret.ok /\ ret.count = 2

====
